---- MODULE Spec2Model ----
(***************************************************************************)
(* Model of xap::core::buffer: Buffer (reference-counted, sliceable byte   *)
(* block), BufferFetcher (read cursor over a Buffer) and BufferQueue (list *)
(* of fetchers popped as one byte stream).                                 *)
(*                                                                         *)
(* Memory is modelled explicitly: `mem' holds the byte arrays owned by     *)
(* std::shared_ptr<uint8_t> together with their use counts, `hbufs' holds  *)
(* the heap Buffer objects owned by std::shared_ptr<Buffer> inside the     *)
(* fetchers.  A Buffer object is the record [alloc, start, len]            *)
(* (m_buffer, m_bufferstart - m_buffer.get(), m_bufferlength).             *)
(***************************************************************************)
EXTENDS Integers, Sequences, FiniteSets, TLC

(***************************************************************************)
(* Bounds of the model.                                                    *)
(***************************************************************************)
\* longest raw byte range / zero-filled buffer the caller constructs
MaxLen == 2
\* most bytes waiting in one queue
MaxQueued == 3
\* width of size_t in bits (the arithmetic of the code is modulo 2^SizeBits)
SizeBits == 4
\* largest byte value the caller writes or constructs with
MaxByte == 2
\* byte arrays alive at one time
MaxAlloc == 3
MaxCount == 3
CodecLen == 9

SizeMod == 2 ^ SizeBits
SizeMax == SizeMod - 1
SizeVals == 0 .. SizeMax
ByteVals == 1 .. MaxByte

\* size_t arithmetic: unsigned, wraps modulo 2^SizeBits
SizeT(x) == x % SizeMod

Min(x, y) == IF x <= y THEN x ELSE y

\* Op applied to the value of v (v is evaluated once)
Let(v, Op(_)) == Op(v)

\* a sequence without its first n elements
Drop(seq, n) == SubSeq(seq, n + 1, Len(seq))

\* the caller's Buffer variables, its BufferQueue variables
Slots == {"a", "b"}
\* the Buffer variable of the client that works the queue
QSlots == {"a"}
QIds == {"queue", "other"}

\* raw byte ranges handed to Buffer(const uint8_t *data, size_t datalen):
\* {}, {0x01}, {0x01, 0x02}, ... (the queue test pushes {0x01 .. 0x04})
RawData == {[i \in 1 .. n |-> i] : n \in 0 .. MaxLen}

\* byte arrays, heap Buffer objects (one per queue segment and one for the
\* caller's fetcher) that can be alive at one time
AllocIds == 1 .. (MaxAlloc + 2)
HBufIds == 1 .. (2 * MaxQueued + 1)

\* content of a byte that was never written (new uint8_t[n] without fill)
Indeterminate == -1

VARIABLES
    mem,      \* AllocId -> [live, refs, data]: arrays behind shared_ptr<uint8_t>
    hbufs,    \* HBufId -> [owners, view]: Buffers behind shared_ptr<Buffer>
    buf,      \* Slot -> Buffer object of the caller (alloc = 0: not constructed)
    fetcher,  \* the caller's BufferFetcher (hb = 0: not constructed)
    queue,    \* QId -> [alive, m_remaining, m_queue]: the caller's queues
    pending,  \* QId -> the bytes pushed and not yet returned by a pop, in
              \* push order (history: the pushed bytes minus the popped ones)
    origin,   \* Slot -> [from, off]: the slice the caller took it as (history)
    last      \* the last call: operation, arguments, outcome, returned bytes

vars == <<mem, hbufs, buf, fetcher, queue, pending, origin, last>>

(***************************************************************************)
(* std::shared_ptr<uint8_t> with deleter buffer_free_space.                *)
(***************************************************************************)
FreeCell == [live |-> FALSE, refs |-> 0, data |-> <<>>]

\* the allocator hands out the lowest free array
NewAllocId(m) ==
    CHOOSE a \in AllocIds : ~m[a].live /\ \A b \in AllocIds : ~m[b].live => a <= b

\* the client holds at most MaxAlloc arrays at a time; the arrays beyond that
\* are there for the temporaries inside a call
CanAlloc(m) == Cardinality({a \in AllocIds : m[a].live}) < MaxAlloc

\* delete[] ptr
buffer_free_space(m, a) == [m EXCEPT ![a] = FreeCell]

\* copy of a shared_ptr<uint8_t>: one more owner
Retain(m, a) == [m EXCEPT ![a].refs = @ + 1]

\* destruction of a shared_ptr<uint8_t>: the last owner runs the deleter
Release(m, a) ==
    IF m[a].refs = 1 THEN buffer_free_space(m, a)
    ELSE [m EXCEPT ![a].refs = @ - 1]

(***************************************************************************)
(* Buffer.                                                                 *)
(***************************************************************************)
NoBuf == [alloc |-> 0, start |-> 0, len |-> 0]

IsBuf(b) == b.alloc # 0

\* Buffer::prepare: m_buffer, m_bufferstart = buffer.get() + offset,
\* m_bufferlength = length
prepare(a, offset, length) == [alloc |-> a, start |-> offset, len |-> length]

\* is byte i of the view inside the array it points into
InAlloc(m, b, i) == b.start + i < Len(m[b.alloc].data)

\* m_bufferstart[i]
ByteAt(m, b, i) ==
    IF InAlloc(m, b, i) THEN m[b.alloc].data[b.start + i + 1] ELSE Indeterminate

\* the bytes a view shows
Bytes(m, b) == [i \in 1 .. b.len |-> ByteAt(m, b, i - 1)]

\* memset(m_bufferstart + offset, value, length), inside the array
MemSet(m, b, offset, length, value) ==
    [m EXCEPT ![b.alloc].data =
        [k \in 1 .. Len(@) |->
            IF k - 1 >= b.start + offset /\ k - 1 < b.start + offset + length
            THEN value ELSE @[k]]]

\* Buffer::fill(value): memset(m_bufferstart, value, m_bufferlength)
fill1(m, b, value) == MemSet(m, b, 0, b.len, value)

\* memcpy(dst.m_bufferstart + doff, src.m_bufferstart + soff, n)
MemCpy(m, dst, doff, src, soff, n) ==
    [m EXCEPT ![dst.alloc].data =
        [k \in 1 .. Len(@) |->
            IF k - 1 >= dst.start + doff /\ k - 1 < dst.start + doff + n
            THEN ByteAt(m, src, soff + (k - 1 - dst.start - doff))
            ELSE @[k]]]

\* Buffer::Buffer(const size_t length): new uint8_t[length] (one byte when
\* length is 0), prepare, fill(0x00).  Result: [mem, buf]
BufferZero(m, length) ==
    Let(prepare(NewAllocId(m), 0, length), LAMBDA b :
        [mem |-> fill1([m EXCEPT ![b.alloc] =
                          [live |-> TRUE, refs |-> 1,
                           data |-> [k \in 1 .. (IF length = 0 THEN 1 ELSE length)
                                       |-> Indeterminate]]],
                       b, 0),
         buf |-> b])

\* Buffer::Buffer(const uint8_t *data, const size_t datalen): new array,
\* memcpy of the raw bytes, prepare
BufferRaw(m, data) ==
    Let(NewAllocId(m), LAMBDA a :
        [mem |-> [m EXCEPT ![a] = [live |-> TRUE, refs |-> 1, data |-> data]],
         buf |-> prepare(a, 0, Len(data))])

BufferCopyShallow(m, source) ==
    [mem |-> m, buf |-> source]

\* Buffer::Buffer(const Buffer &source): shares m_buffer (one more owner of
\* the array), same start, same length
BufferCopy(m, source) ==
    [mem |-> Retain(m, source.alloc), buf |-> source]

\* Buffer::operator= for this != &source: m_buffer = source.m_buffer (the
\* array of source gets one more owner, the old array of this one fewer),
\* start and length of source.  Result: [mem, buf]
BufferAssign(m, this, source) ==
    [mem |-> Release(Retain(m, source.alloc), this.alloc), buf |-> source]

\* Buffer::~Buffer: the member m_buffer is destroyed
BufferDestroy(m, b) == Release(m, b.alloc)

\* Buffer::check_access: TRUE when it returns, FALSE when it throws
\* XAPCORE_BUF_ERROR_OVERFLOW
check_access(b, offset, length) ==
    IF length = 0 THEN TRUE
    ELSE IF offset >= b.len THEN FALSE
    ELSE IF SizeT(offset + length) > b.len THEN FALSE
    ELSE TRUE

\* Buffer::slice(offset, length) after check_access passed:
\* Buffer(m_buffer, (m_bufferstart - m_buffer.get()) + offset, length)
Slice(m, b, offset, length) ==
    [mem |-> Retain(m, b.alloc),
     buf |-> prepare(b.alloc, SizeT(b.start + offset), length)]

\* Buffer::slice(offset): the length handed on is get_length() - offset
SliceLen1(b, offset) == SizeT(b.len - offset)

\* Buffer::copy(destination, destination_offset): [ok, mem, n]
Copy2(m, src, dst, dst_off) ==
    IF dst_off > dst.len
    THEN [ok |-> FALSE, mem |-> m, n |-> 0]
    ELSE Let(Min(src.len, dst.len - dst_off), LAMBDA copy_len :
             [ok |-> TRUE, mem |-> MemCpy(m, dst, dst_off, src, 0, copy_len),
              n |-> copy_len])

\* Buffer::copy(destination): [ok, mem, n]; it never throws
Copy1(m, src, dst) ==
    Let(Min(src.len, dst.len), LAMBDA copy_len :
        [ok |-> TRUE, mem |-> MemCpy(m, dst, 0, src, 0, copy_len),
         n |-> copy_len])

\* Buffer::Buffer(const size_t length, const bool unsafe) with unsafe = true:
\* new uint8_t[length], prepare, no fill.  Result: [mem, buf]
BufferUnsafe(m, length) ==
    Let(prepare(NewAllocId(m), 0, length), LAMBDA b :
        [mem |-> [m EXCEPT ![b.alloc] =
                     [live |-> TRUE, refs |-> 1,
                      data |-> [k \in 1 .. (IF length = 0 THEN 1 ELSE length)
                                  |-> Indeterminate]]],
         buf |-> b])

\* Buffer::concat, first loop: datalen += buffers[i].get_length()
RECURSIVE ConcatLen(_, _)
ConcatLen(buffers, i) ==
    IF i > Len(buffers) THEN 0
    ELSE SizeT(buffers[i].len + ConcatLen(buffers, i + 1))

RECURSIVE ConcatCopyNoCursor(_, _, _, _, _)
ConcatCopyNoCursor(m, buffers, rst, i, cursor) ==
    IF i > Len(buffers) THEN [ok |-> TRUE, mem |-> m]
    ELSE Let(Copy2(m, buffers[i], rst, cursor), LAMBDA c :
             IF ~c.ok THEN [ok |-> FALSE, mem |-> c.mem]
             ELSE ConcatCopyNoCursor(c.mem, buffers, rst, i + 1, cursor))

\* Buffer::concat, second loop: buffers[i].copy(rst, cursor);
\* cursor += buffers[i].get_length().  Result: [ok, mem]
RECURSIVE ConcatCopy(_, _, _, _, _)
ConcatCopy(m, buffers, rst, i, cursor) ==
    IF i > Len(buffers) THEN [ok |-> TRUE, mem |-> m]
    ELSE Let(Copy2(m, buffers[i], rst, cursor), LAMBDA c :
             IF ~c.ok THEN [ok |-> FALSE, mem |-> c.mem]
             ELSE ConcatCopy(c.mem, buffers, rst, i + 1,
                             SizeT(cursor + buffers[i].len)))

\* Buffer::concat(buffers, count), count = Len(buffers): [ok, mem, buf]; a
\* copy that throws destroys rst on the way out
concat(m, buffers) ==
    Let(BufferUnsafe(m, ConcatLen(buffers, 1)), LAMBDA rst :
    Let(ConcatCopy(rst.mem, buffers, rst.buf, 1, 0), LAMBDA c :
        IF c.ok THEN [ok |-> TRUE, mem |-> c.mem, buf |-> rst.buf]
        ELSE [ok |-> FALSE, mem |-> BufferDestroy(c.mem, rst.buf),
              buf |-> NoBuf]))

\* do the n bytes memcpy reads and the n bytes it writes overlap
Overlap(dst, doff, src, soff, n) ==
    /\ n > 0 /\ dst.alloc = src.alloc
    /\ dst.start + doff < src.start + soff + n
    /\ src.start + soff < dst.start + doff + n

\* memcpy done byte after byte from the first: what a memcpy over
\* overlapping ranges can leave behind
RECURSIVE MemCpyForward(_, _, _, _, _, _, _)
MemCpyForward(m, dst, doff, src, soff, n, i) ==
    IF i >= n THEN m
    ELSE MemCpyForward(
             [m EXCEPT ![dst.alloc].data[dst.start + doff + i + 1] =
                           ByteAt(m, src, soff + i)],
             dst, doff, src, soff, n, i + 1)

(***************************************************************************)
(* Unsigned integers of the C++ code.  A value is the sequence of its     *)
(* bits, least significant first, without leading zero bits (0 is <<>>),   *)
(* so that 32- and 64-bit values are computed in full.                     *)
(***************************************************************************)
Norm(b) ==
    IF b = <<>> \/ b[Len(b)] = 1 THEN b
    ELSE SubSeq(b, 1, CHOOSE i \in 0 .. Len(b) :
                         /\ i = 0 \/ b[i] = 1
                         /\ \A j \in i + 1 .. Len(b) : b[j] = 0)

\* the value of a number below 2^31, the number of a value below 2^31
Bits(n) == Norm([i \in 1 .. 31 |-> (n \div 2 ^ (i - 1)) % 2])

RECURSIVE Num(_)
Num(b) == IF b = <<>> THEN 0 ELSE b[1] + 2 * Num(Tail(b))

BitAt(b, i) == IF i < Len(b) THEN b[i + 1] ELSE 0

\* x & y, x | y, x << k, x >> k
And(x, y) == Norm([i \in 1 .. Min(Len(x), Len(y)) |-> x[i] * y[i]])

Or(x, y) ==
    [i \in 1 .. (IF Len(x) >= Len(y) THEN Len(x) ELSE Len(y)) |->
        IF BitAt(x, i - 1) + BitAt(y, i - 1) > 0 THEN 1 ELSE 0]

Shl(x, k) == IF x = <<>> THEN <<>> ELSE [i \in 1 .. k |-> 0] \o x

Shr(x, k) == IF k >= Len(x) THEN <<>> ELSE SubSeq(x, k + 1, Len(x))

\* static_cast to an unsigned type of w bits
Cast(x, w) == Norm(SubSeq(x, 1, Min(w, Len(x))))

\* bits lo .. lo + w - 1 of x + y (sign 1) or x - y (sign -1) with carry or
\* borrow c into bit lo, followed by the carry or borrow out of them; the
\* low half of the bits first, its carry into the high half
RECURSIVE Columns(_, _, _, _, _, _)
Columns(x, y, c, lo, w, sign) ==
    IF w = 1
    THEN Let(BitAt(x, lo) + sign * (BitAt(y, lo) + c), LAMBDA t :
             <<t % 2, sign * ((t - (t % 2)) \div 2)>>)
    ELSE Let(Columns(x, y, c, lo, w \div 2, sign), LAMBDA l :
         Let(Columns(x, y, l[w \div 2 + 1], lo + w \div 2, w - w \div 2,
                     sign), LAMBDA h :
             SubSeq(l, 1, w \div 2) \o h))

\* x + y, x - y (for x >= y), x < y
Add(x, y) ==
    Norm(Columns(x, y, 0, 0, 1 + (IF Len(x) >= Len(y) THEN Len(x) ELSE Len(y)),
                 1))

Sub(x, y) == Norm(SubSeq(Columns(x, y, 0, 0, 1 + Len(x), 0 - 1), 1, Len(x)))

Less(x, y) ==
    IF Len(x) # Len(y) THEN Len(x) < Len(y)
    ELSE \E i \in 1 .. Len(x) :
            /\ x[i] < y[i]
            /\ \A j \in i + 1 .. Len(x) : x[j] = y[j]

\* x * y: the low half of the bits of x times y, plus the high half times y
RECURSIVE Mul(_, _)
Mul(x, y) ==
    IF x = <<>> THEN <<>>
    ELSE IF Len(x) = 1 THEN y
    ELSE Add(Mul(Norm(SubSeq(x, 1, Len(x) \div 2)), y),
             Shl(Mul(Shr(x, Len(x) \div 2), y), Len(x) \div 2))

\* bits hi .. lo of the quotient of x / d and what is left of x, the high
\* half of the bits first: [q, r]
RECURSIVE Quotient(_, _, _, _)
Quotient(x, d, hi, lo) ==
    IF hi = lo
    THEN IF Less(x, Shl(d, lo)) THEN [q |-> <<>>, r |-> x]
         ELSE [q |-> Shl(<<1>>, lo), r |-> Sub(x, Shl(d, lo))]
    ELSE Let(Quotient(x, d, hi, lo + (hi - lo + 1) \div 2), LAMBDA h :
         Let(Quotient(h.r, d, lo + (hi - lo + 1) \div 2 - 1, lo), LAMBDA l :
             [q |-> Or(h.q, l.q), r |-> l.r]))

\* x / y and x % y, y > 0
DivMod(x, d) == Quotient(x, d, Len(x), 0)

UINT32_MAX == [i \in 1 .. 32 |-> 1]

(***************************************************************************)
(* Buffer: the integer reads and writes.                                   *)
(***************************************************************************)
ReadOps ==
    {"read_uint8", "read_uint16_be", "read_uint16_le", "read_uint32_be",
     "read_uint32_le", "read_uint64_be", "read_uint64_le"}

WriteOps ==
    {"write_uint8", "write_uint16_be", "write_uint16_le", "write_uint32_be",
     "write_uint32_le", "write_uint64_be", "write_uint64_le"}

\* the length each function hands to check_access
Width(op) ==
    CASE op \in {"read_uint8", "write_uint8"} -> 1
      [] op \in {"read_uint16_be", "read_uint16_le",
                 "write_uint16_be", "write_uint16_le"} -> 2
      [] op \in {"read_uint32_be", "read_uint32_le",
                 "write_uint32_be", "write_uint32_le",
                 "read_float_be", "read_float_le",
                 "write_float_be", "write_float_le"} -> 4
      [] op \in {"read_uint64_be", "read_uint64_le",
                 "write_uint64_be", "write_uint64_le",
                 "read_double_be", "read_double_le",
                 "write_double_be", "write_double_le"} -> 8

\* the terms of each read function, <<at, shift>>:
\* static_cast<uintN_t>(m_bufferstart[offset + at]) << shift
ReadRows(op) ==
    CASE op = "read_uint8" -> << <<0, 0>> >>
      [] op = "read_uint16_be" -> << <<0, 8>>, <<1, 0>> >>
      [] op = "read_uint16_le" -> << <<1, 8>>, <<0, 0>> >>
      [] op = "read_uint32_be" ->
            << <<0, 24>>, <<1, 16>>, <<2, 8>>, <<3, 0>> >>
      [] op = "read_uint32_le" ->
            << <<3, 24>>, <<2, 16>>, <<1, 8>>, <<0, 0>> >>
      [] op = "read_uint64_be" ->
            << <<0, 56>>, <<1, 48>>, <<2, 40>>, <<3, 32>>,
               <<4, 24>>, <<5, 16>>, <<6, 8>>, <<7, 0>> >>
      [] op = "read_uint64_le" ->
            << <<7, 56>>, <<6, 48>>, <<5, 40>>, <<4, 32>>,
               <<3, 24>>, <<2, 16>>, <<1, 8>>, <<0, 0>> >>

\* the statements of each write function, <<at, bit, shift>>:
\* m_bufferstart[offset + at] =
\*     static_cast<uint8_t>((value & (0xFF << bit)) >> shift)
WriteRows(op) ==
    CASE op = "write_uint8" -> << <<0, 0, 0>> >>
      [] op = "write_uint16_be" -> << <<0, 8, 8>>, <<1, 0, 0>> >>
      [] op = "write_uint16_le" -> << <<1, 8, 8>>, <<0, 0, 0>> >>
      [] op = "write_uint32_be" ->
            << <<0, 24, 24>>, <<1, 16, 16>>, <<2, 8, 8>>, <<3, 0, 0>> >>
      [] op = "write_uint32_le" ->
            << <<3, 24, 24>>, <<2, 16, 16>>, <<1, 8, 8>>, <<0, 0, 0>> >>
      [] op = "write_uint64_be" ->
            << <<0, 56, 56>>, <<1, 48, 48>>, <<2, 40, 40>>, <<3, 32, 32>>,
               <<4, 24, 24>>, <<5, 16, 16>>, <<6, 8, 8>>, <<7, 0, 0>> >>
      [] op = "write_uint64_le" ->
            << <<7, 56, 56>>, <<6, 48, 48>>, <<5, 40, 40>>, <<4, 32, 32>>,
               <<3, 24, 24>>, <<2, 16, 16>>, <<1, 8, 8>>, <<0, 0, 0>> >>

\* m_bufferstart[i] = value, a byte given as a number
SetByte(m, b, i, value) ==
    [m EXCEPT ![b.alloc].data[b.start + i + 1] = value]

RECURSIVE ReadTermsUnshifted(_, _, _, _, _)
ReadTermsUnshifted(m, b, offset, rows, i) ==
    IF i > Len(rows) THEN <<>>
    ELSE Or(Bits(ByteAt(m, b, SizeT(offset + rows[i][1]))),
            ReadTermsUnshifted(m, b, offset, rows, i + 1))

\* the value a read function returns after its check_access
RECURSIVE ReadTerms(_, _, _, _, _)
ReadTerms(m, b, offset, rows, i) ==
    IF i > Len(rows) THEN <<>>
    ELSE Or(Shl(Bits(ByteAt(m, b, SizeT(offset + rows[i][1]))), rows[i][2]),
            ReadTerms(m, b, offset, rows, i + 1))

read_uint(m, b, op, offset) ==
    Cast(ReadTerms(m, b, offset, ReadRows(op), 1), 8 * Width(op))

RECURSIVE WriteStatementsSwapped(_, _, _, _, _, _)
WriteStatementsSwapped(m, b, value, offset, rows, i) ==
    IF i > Len(rows) THEN m
    ELSE WriteStatementsSwapped(
             SetByte(m, b, SizeT(offset + rows[Len(rows) + 1 - i][1]),
                     Num(Cast(Shr(And(value, Shl(Bits(255), rows[i][2])),
                                  rows[i][3]), 8))),
             b, value, offset, rows, i + 1)

\* the memory after the statements of a write function
RECURSIVE WriteStatements(_, _, _, _, _, _)
WriteStatements(m, b, value, offset, rows, i) ==
    IF i > Len(rows) THEN m
    ELSE WriteStatements(
             SetByte(m, b, SizeT(offset + rows[i][1]),
                     Num(Cast(Shr(And(value, Shl(Bits(255), rows[i][2])),
                                  rows[i][3]), 8))),
             b, value, offset, rows, i + 1)

write_uint(m, b, op, value, offset) ==
    WriteStatements(m, b, value, offset, WriteRows(op), 1)

(***************************************************************************)
(* float and double values: (-1)^s * n * 2^k with n odd or 0 (cls "fin"),  *)
(* the infinity of sign s, or a NaN.  The arithmetic of the code on them   *)
(* is computed exactly and rounded to the 53 bits of a double where the    *)
(* result has more.                                                        *)
(***************************************************************************)
Fin(s, n, k) ==
    IF n = <<>> THEN [cls |-> "fin", s |-> s, n |-> <<>>, k |-> 0]
    ELSE Let(CHOOSE i \in 0 .. Len(n) - 1 :
                 n[i + 1] = 1 /\ \A j \in 1 .. i : n[j] = 0, LAMBDA z :
             [cls |-> "fin", s |-> s, n |-> Shr(n, z), k |-> k + z])

\* s * INFINITY, std::nan("1")
Infinity(s) == [cls |-> "inf", s |-> s, n |-> <<>>, k |-> 0]

NaN == [cls |-> "nan", s |-> 0, n |-> <<>>, k |-> 0]

\* x * std::pow(2, j)
Scale(x, j) == Fin(x.s, x.n, x.k + j)

\* std::floor(std::log(x) / std::log(2)) of a finite x > 0
Log2(x) == Len(x.n) - 1 + x.k

\* x + y and x - y of finite x >= y >= 0, before rounding
Plus(x, y) ==
    IF y.n = <<>> THEN x
    ELSE IF x.n = <<>> THEN y
    ELSE Let(Min(x.k, y.k), LAMBDA k :
             Fin(0, Add(Shl(x.n, x.k - k), Shl(y.n, y.k - k)), k))

Minus(x, y) ==
    IF y.n = <<>> THEN x
    ELSE Let(Min(x.k, y.k), LAMBDA k :
             Fin(0, Sub(Shl(x.n, x.k - k), Shl(y.n, y.k - k)), k))

\* a finite x >= 0 rounded to the nearest double, ties to even
RoundDouble(x) ==
    IF Len(x.n) <= 53 THEN x
    ELSE Let(Len(x.n) - 53, LAMBDA d :
         Let(Shr(x.n, d), LAMBDA q :
             IF x.n[d] = 1 /\ (q[1] = 1 \/ Cast(x.n, d - 1) # <<>>)
             THEN Fin(0, Add(q, <<1>>), x.k + d)
             ELSE Fin(0, q, x.k + d)))

\* static_cast<uint32_t>(x) of a finite x >= 0 that fits: truncation
Trunc(x) == IF x.k >= 0 THEN Shl(x.n, x.k) ELSE Shr(x.n, 0 - x.k)

\* write_ieee_754_float: rt = std::pow(2, -24) - std::pow(2, -77);
\* write_ieee_754_double: rt = 0U
FloatRt == Minus(Fin(0, <<1>>, 0 - 24), Fin(0, <<1>>, 0 - 77))

DoubleRt == Fin(0, <<>>, 0)

\* write_ieee_754_float and write_ieee_754_double from "double m_value" to
\* "Result bits": e, the exponent bits value, and m, the mantissa bits value
\* before its cast.  log(0) is -infinity: no test of e succeeds then.
\* pow(2, -e) is +infinity for e < -1023: m_value * c >= 2.0 holds then.
MantissaExponent(value, mantissa_length, exponent_max, exponent_bias, rt) ==
    IF value.cls # "fin"
    THEN [e |-> exponent_max,
          m |-> IF value.cls = "nan" THEN Fin(0, <<1>>, 0)
                ELSE Fin(0, <<>>, 0)]
    ELSE IF value.n = <<>>
    THEN [e |-> 0,
          m |-> Scale(Scale(rt, 1 - exponent_bias),
                      (exponent_bias - 1) + mantissa_length)]
    ELSE Let(Log2(value), LAMBDA e0 :
         Let(RoundDouble(Plus(Fin(0, value.n, value.k),
                              Scale(rt, IF e0 + exponent_bias >= 1 THEN e0
                                        ELSE 1 - exponent_bias))),
             LAMBDA m_value :
         Let(IF 0 - e0 > 1023 \/ Log2(m_value) - e0 >= 1 THEN e0 + 1 ELSE e0,
             LAMBDA e :
             IF e + exponent_bias >= exponent_max
             THEN [e |-> exponent_max, m |-> Fin(0, <<>>, 0)]
             ELSE IF e + exponent_bias >= 1
             THEN [e |-> e + exponent_bias,
                   m |-> Scale(Minus(Scale(m_value, 0 - e), Fin(0, <<1>>, 0)),
                               mantissa_length)]
             ELSE [e |-> 0,
                   m |-> Scale(m_value,
                               (exponent_bias - 1) + mantissa_length)])))

\* the statements m_bufferstart[offset + i] = ... of a write function whose
\* big-endian branch stores at bytes - 1 - i what its little-endian branch
\* stores at i; bytes[i + 1] is the value stored
RECURSIVE StoreBytes(_, _, _, _, _, _)
StoreBytes(m, b, isle, offset, bytes, i) ==
    IF i >= Len(bytes) THEN m
    ELSE StoreBytes(
             SetByte(m, b,
                     SizeT(offset + (IF isle THEN i ELSE Len(bytes) - 1 - i)),
                     Num(Cast(bytes[i + 1], 8))),
             b, isle, offset, bytes, i + 1)

\* write_ieee_754_float after its check_access
write_ieee_754_float(m, b, value, isle, offset) ==
    Let(MantissaExponent(value, 23, 255, 127, FloatRt), LAMBDA f :
    Let(Cast(Trunc(f.m), 32), LAMBDA m_bits :
    Let(Bits(f.e), LAMBDA e_bits :
        StoreBytes(m, b, isle, offset,
            << And(m_bits, Bits(255)),
               And(Shr(m_bits, 8), Bits(255)),
               Or(And(Shr(m_bits, 16), Bits(127)),
                  Cast(And(Shl(e_bits, 7), Bits(128)), 8)),
               Or(And(Shr(e_bits, 1), Bits(127)), Shl(Bits(value.s), 7)) >>,
            0))))

\* static_cast<uint32_t>(m) of write_ieee_754_double: undefined for a mantissa
\* above UINT32_MAX; builds keep the low 32 bits or saturate
MantissaLow(x) == IF Len(x) > 32 THEN {Cast(x, 32), UINT32_MAX} ELSE {x}

\* static_cast<uint32_t>(m / static_cast<double>(UINT32_MAX))
MantissaHigh(x) == Cast(DivMod(x, UINT32_MAX).q, 32)

\* write_ieee_754_double after its check_access: the memories it can leave
write_ieee_754_double(m, b, value, isle, offset) ==
    Let(MantissaExponent(value, 52, 2047, 1023, DoubleRt), LAMBDA f :
    Let(MantissaHigh(Trunc(f.m)), LAMBDA m_bits2 :
    Let(Bits(f.e), LAMBDA e_bits :
        {StoreBytes(m, b, isle, offset,
            << And(m_bits1, Bits(255)),
               And(Shr(m_bits1, 8), Bits(255)),
               And(Shr(m_bits1, 16), Bits(255)),
               And(Shr(m_bits1, 24), Bits(255)),
               And(Shr(m_bits2, 0), Bits(255)),
               And(Shr(m_bits2, 8), Bits(255)),
               Or(And(Shr(m_bits2, 16), Bits(15)),
                  Shl(Cast(And(e_bits, Bits(15)), 8), 4)),
               Or(And(Shr(e_bits, 4), Bits(127)), Shl(Bits(value.s), 7)) >>,
            0) : m_bits1 \in MantissaLow(Trunc(f.m))})))

\* m_bufferstart[offset + i] of the little-endian branch of a read function,
\* m_bufferstart[offset + bytes - 1 - i] of its big-endian branch
LeByte(m, b, isle, offset, bytes, i) ==
    Bits(ByteAt(m, b, SizeT(offset + (IF isle THEN i ELSE bytes - 1 - i))))

\* read_ieee_754_float and read_ieee_754_double from "double s" on
Value(s_bits, e_bits, mantissa, mantissa_length, exponent_max, exponent_bias) ==
    IF Num(e_bits) = 0
    THEN Fin(Num(s_bits), mantissa, (1 - exponent_bias) - mantissa_length)
    ELSE IF Num(e_bits) = exponent_max
    THEN IF mantissa = <<>> THEN Infinity(Num(s_bits)) ELSE NaN
    ELSE Fin(Num(s_bits), Add(mantissa, Shl(<<1>>, mantissa_length)),
             (Num(e_bits) - exponent_bias) - mantissa_length)

\* read_ieee_754_float after its check_access
read_ieee_754_float(m, b, isle, offset) ==
    Value(Shr(And(LeByte(m, b, isle, offset, 4, 3), Bits(128)), 7),
          Or(Shl(And(LeByte(m, b, isle, offset, 4, 3), Bits(127)), 1),
             Shr(And(LeByte(m, b, isle, offset, 4, 2), Bits(128)), 7)),
          Or(Shl(And(LeByte(m, b, isle, offset, 4, 2), Bits(127)), 16),
             Or(Shl(LeByte(m, b, isle, offset, 4, 1), 8),
                LeByte(m, b, isle, offset, 4, 0))),
          23, 255, 127)

\* read_ieee_754_double: m_bits2, m_bits1
read_m_bits2(m, b, isle, offset) ==
    Or(Shl(And(LeByte(m, b, isle, offset, 8, 6), Bits(15)), 16),
       Or(Shl(LeByte(m, b, isle, offset, 8, 5), 8),
          LeByte(m, b, isle, offset, 8, 4)))

read_m_bits1(m, b, isle, offset) ==
    Or(Shl(LeByte(m, b, isle, offset, 8, 3), 24),
       Or(Shl(LeByte(m, b, isle, offset, 8, 2), 16),
          Or(Shl(LeByte(m, b, isle, offset, 8, 1), 8),
             LeByte(m, b, isle, offset, 8, 0))))

\* read_ieee_754_double: double m = m_bits1; m += m_bits2 * 0xFFFFFFFF
DoubleMantissa(m, b, isle, offset) ==
    Add(read_m_bits1(m, b, isle, offset),
        Mul(read_m_bits2(m, b, isle, offset), UINT32_MAX))

\* read_ieee_754_double after its check_access
read_ieee_754_double(m, b, isle, offset) ==
    Value(Shr(And(LeByte(m, b, isle, offset, 8, 7), Bits(128)), 7),
          Or(Shl(And(LeByte(m, b, isle, offset, 8, 7), Bits(127)), 4),
             Shr(And(LeByte(m, b, isle, offset, 8, 6), Bits(240)), 4)),
          DoubleMantissa(m, b, isle, offset),
          52, 2047, 1023)

(***************************************************************************)
(* BufferFetcher.                                                          *)
(***************************************************************************)
NoFetcher == [hb |-> 0, m_buffer_length |-> 0, m_cursor |-> 0]
FreeHBuf == [owners |-> 0, view |-> NoBuf]

NewHBufId(h) ==
    CHOOSE i \in HBufIds : h[i].owners = 0 /\ \A j \in HBufIds : h[j].owners = 0 => i <= j

CanHBuf(h) == \E i \in HBufIds : h[i].owners = 0

\* *m_buffer
FView(h, f) == h[f.hb].view

\* BufferFetcher::BufferFetcher(const Buffer &buffer) and replace's body:
\* new Buffer(buffer), shared_ptr<Buffer>(copied_buffer), length, cursor 0.
\* Result: [mem, hbufs, f]
FetcherNew(m, h, buffer) ==
    Let(BufferCopy(m, buffer), LAMBDA c :
    Let(NewHBufId(h), LAMBDA i :
        [mem |-> c.mem,
         hbufs |-> [h EXCEPT ![i] = [owners |-> 1, view |-> c.buf]],
         f |-> [hb |-> i, m_buffer_length |-> c.buf.len, m_cursor |-> 0]]))

\* BufferFetcher::~BufferFetcher: m_buffer_shared_pointer.reset(); the last
\* owner deletes the Buffer, whose destructor releases the array
FetcherDestroy(m, h, f) ==
    IF h[f.hb].owners = 1
    THEN [mem |-> BufferDestroy(m, h[f.hb].view),
          hbufs |-> [h EXCEPT ![f.hb] = FreeHBuf]]
    ELSE [mem |-> m, hbufs |-> [h EXCEPT ![f.hb].owners = @ - 1]]

\* BufferFetcher::is_end
is_end(f) == f.m_cursor = f.m_buffer_length

\* BufferFetcher::get_remaining_size
get_remaining_size(f) == SizeT(f.m_buffer_length - f.m_cursor)

FetchAllNoAdvance(m, h, f) ==
    IF is_end(f)
    THEN Let(BufferZero(m, 0), LAMBDA z :
             [ok |-> TRUE, mem |-> z.mem, f |-> f, out |-> z.buf])
    ELSE Let(SliceLen1(FView(h, f), f.m_cursor), LAMBDA n :
         IF ~check_access(FView(h, f), f.m_cursor, n)
         THEN [ok |-> FALSE, mem |-> m, f |-> f, out |-> NoBuf]
         ELSE Let(Slice(m, FView(h, f), f.m_cursor, n), LAMBDA s :
                  [ok |-> TRUE, mem |-> s.mem, f |-> f, out |-> s.buf]))

\* BufferFetcher::fetch_all: [ok, mem, f, out]; `out' is a new Buffer object
\* the caller owns
fetch_all(m, h, f) ==
    IF is_end(f)
    THEN Let(BufferZero(m, 0), LAMBDA z :
             [ok |-> TRUE, mem |-> z.mem, f |-> f, out |-> z.buf])
    ELSE Let(SliceLen1(FView(h, f), f.m_cursor), LAMBDA n :
         IF ~check_access(FView(h, f), f.m_cursor, n)
         THEN [ok |-> FALSE, mem |-> m, f |-> f, out |-> NoBuf]
         ELSE Let(Slice(m, FView(h, f), f.m_cursor, n), LAMBDA s :
                  [ok |-> TRUE, mem |-> s.mem,
                   f |-> [f EXCEPT !.m_cursor = SizeT(@ + s.buf.len)],
                   out |-> s.buf]))

FetchBytesStrict(m, h, f, count) ==
    IF count = 0
    THEN Let(BufferZero(m, 0), LAMBDA z :
             [ok |-> TRUE, mem |-> z.mem, f |-> f, out |-> z.buf])
    ELSE IF count >= get_remaining_size(f)
    THEN [ok |-> FALSE, mem |-> m, f |-> f, out |-> NoBuf]
    ELSE Let(Slice(m, FView(h, f), f.m_cursor, count), LAMBDA s :
             [ok |-> TRUE, mem |-> s.mem,
              f |-> [f EXCEPT !.m_cursor = SizeT(@ + count)],
              out |-> s.buf])

\* BufferFetcher::fetch_bytes: [ok, mem, f, out]
fetch_bytes(m, h, f, count) ==
    IF count = 0
    THEN Let(BufferZero(m, 0), LAMBDA z :
             [ok |-> TRUE, mem |-> z.mem, f |-> f, out |-> z.buf])
    ELSE IF count > get_remaining_size(f)
    THEN [ok |-> FALSE, mem |-> m, f |-> f, out |-> NoBuf]
    ELSE IF ~check_access(FView(h, f), f.m_cursor, count)
    THEN [ok |-> FALSE, mem |-> m, f |-> f, out |-> NoBuf]
    ELSE Let(Slice(m, FView(h, f), f.m_cursor, count), LAMBDA s :
             [ok |-> TRUE, mem |-> s.mem,
              f |-> [f EXCEPT !.m_cursor = SizeT(@ + count)],
              out |-> s.buf])


\* BufferFetcher::replace: a new heap Buffer as in the constructor; the
\* assignment to m_buffer_shared_pointer gives up the old one.
\* Result: [mem, hbufs, f]
replace(m, h, f, new_buffer) ==
    Let(FetcherNew(m, h, new_buffer), LAMBDA n :
    Let(FetcherDestroy(n.mem, n.hbufs, f), LAMBDA d :
        [mem |-> d.mem, hbufs |-> d.hbufs, f |-> n.f]))

\* Buffer::read_uint8: [ok, value]
read_uint8(m, b, offset) ==
    [ok |-> check_access(b, offset, 1), value |-> ByteAt(m, b, offset)]

AssertNotEofOff(f) == TRUE

\* BufferFetcher::assert_not_eof: TRUE when it returns, FALSE when it throws
\* "Reached the end of the buffer."
assert_not_eof(f) == ~is_end(f)

\* BufferFetcher::fetch: assert_not_eof(), then read_uint8(m_cursor++) (the
\* cursor is advanced before read_uint8 checks the access).
\* Result: [ok, err, f, ret]
fetch(m, h, f) ==
    IF ~assert_not_eof(f)
    THEN [ok |-> FALSE, err |-> "EndOfStream", f |-> f, ret |-> <<>>]
    ELSE Let(read_uint8(m, FView(h, f), f.m_cursor), LAMBDA r :
             [ok |-> r.ok, err |-> IF r.ok THEN "" ELSE "OutOfRange",
              f |-> [f EXCEPT !.m_cursor = SizeT(@ + 1)],
              ret |-> IF r.ok THEN <<r.value>> ELSE <<>>])

\* BufferFetcher::reset
reset(f) == [f EXCEPT !.m_cursor = 0]

Copy3NoSrcOffset(m, src, dst, dst_off, src_off) ==
    IF dst_off > dst.len \/ src_off > src.len
    THEN [ok |-> FALSE, mem |-> m, n |-> 0]
    ELSE Let(Min(SizeT(src.len - src_off), SizeT(dst.len - dst_off)),
             LAMBDA copy_len :
             [ok |-> TRUE,
              mem |-> MemCpy(m, dst, dst_off, src, 0, copy_len),
              n |-> copy_len])

\* Buffer::copy(destination, destination_offset, src_offset): [ok, mem, n]
Copy3(m, src, dst, dst_off, src_off) ==
    IF dst_off > dst.len \/ src_off > src.len
    THEN [ok |-> FALSE, mem |-> m, n |-> 0]
    ELSE Let(Min(SizeT(src.len - src_off), SizeT(dst.len - dst_off)),
             LAMBDA copy_len :
             [ok |-> TRUE,
              mem |-> MemCpy(m, dst, dst_off, src, src_off, copy_len),
              n |-> copy_len])

FetchToAdvanceFull(f, dst, copy_len) ==
    [f EXCEPT !.m_cursor = SizeT(@ + dst.len)]

\* fetch_to: this->m_cursor += copy_len
FetchToAdvance(f, dst, copy_len) ==
    [f EXCEPT !.m_cursor = SizeT(@ + copy_len)]

\* BufferFetcher::fetch_to(destination, destination_offset):
\* [ok, err, mem, f, n]
fetch_to(m, h, f, destination, destination_offset) ==
    IF destination.len = 0
    THEN [ok |-> TRUE, err |-> "", mem |-> m, f |-> f, n |-> 0]
    ELSE IF ~assert_not_eof(f)
    THEN [ok |-> FALSE, err |-> "EndOfStream", mem |-> m, f |-> f, n |-> 0]
    ELSE Let(Copy3(m, FView(h, f), destination, destination_offset,
                   f.m_cursor), LAMBDA c :
             IF ~c.ok
             THEN [ok |-> FALSE, err |-> "OutOfRange", mem |-> m, f |-> f,
                   n |-> 0]
             ELSE [ok |-> TRUE, err |-> "", mem |-> c.mem,
                   f |-> FetchToAdvance(f, destination, c.n), n |-> c.n])

SkipRangeErrorLoose(f, count) == count > f.m_buffer_length

\* does skip(count) throw "Out of range." once assert_not_eof has passed
SkipRangeError(f, count) == count > get_remaining_size(f)

SkipNoEofCheck(f, count) ==
    IF count = 0 THEN [ok |-> TRUE, err |-> "", f |-> f]
    ELSE IF SkipRangeError(f, count)
    THEN [ok |-> FALSE, err |-> "OutOfRange", f |-> f]
    ELSE [ok |-> TRUE, err |-> "",
          f |-> [f EXCEPT !.m_cursor = SizeT(@ + count)]]

\* BufferFetcher::skip: [ok, err, f]
skip(f, count) ==
    IF count = 0 THEN [ok |-> TRUE, err |-> "", f |-> f]
    ELSE IF ~assert_not_eof(f)
    THEN [ok |-> FALSE, err |-> "EndOfStream", f |-> f]
    ELSE IF SkipRangeError(f, count)
    THEN [ok |-> FALSE, err |-> "OutOfRange", f |-> f]
    ELSE [ok |-> TRUE, err |-> "",
          f |-> [f EXCEPT !.m_cursor = SizeT(@ + count)]]

FetcherCopyRewound(h, src) ==
    [hbufs |-> [h EXCEPT ![src.hb].owners = @ + 1],
     f |-> [src EXCEPT !.m_cursor = 0]]

\* BufferFetcher::BufferFetcher(const BufferFetcher &src): one more owner of
\* the same heap Buffer, own cursor and length
FetcherCopy(h, src) ==
    [hbufs |-> [h EXCEPT ![src.hb].owners = @ + 1], f |-> src]

(***************************************************************************)
(* BufferQueue.                                                            *)
(***************************************************************************)
\* a BufferQueue variable that is not constructed
NoQueue == [alive |-> FALSE, m_remaining |-> 0, m_queue |-> <<>>]

\* BufferQueue::BufferQueue(): m_remaining(0U), m_queue()
EmptyQueue == [alive |-> TRUE, m_remaining |-> 0, m_queue |-> <<>>]

\* copies of the fetchers of a list, element by element.  Result: [hbufs, l]
RECURSIVE ListCopy(_, _, _)
ListCopy(h, l, acc) ==
    IF l = <<>> THEN [hbufs |-> h, l |-> acc]
    ELSE Let(FetcherCopy(h, Head(l)), LAMBDA c :
             ListCopy(c.hbufs, Tail(l), Append(acc, c.f)))

\* destruction of the fetchers of a list.  Result: [mem, hbufs]
RECURSIVE ListDestroy(_, _, _)
ListDestroy(m, h, l) ==
    IF l = <<>> THEN [mem |-> m, hbufs |-> h]
    ELSE Let(FetcherDestroy(m, h, Head(l)), LAMBDA d :
             ListDestroy(d.mem, d.hbufs, Tail(l)))

QueueCopyNoCount(h, src) ==
    Let(ListCopy(h, src.m_queue, <<>>), LAMBDA c :
        [hbufs |-> c.hbufs,
         q |-> [alive |-> TRUE, m_remaining |-> 0, m_queue |-> c.l]])

\* BufferQueue::BufferQueue(const BufferQueue &src):
\* m_remaining(src.m_remaining), m_queue(src.m_queue).  Result: [hbufs, q]
QueueCopy(h, src) ==
    Let(ListCopy(h, src.m_queue, <<>>), LAMBDA c :
        [hbufs |-> c.hbufs,
         q |-> [alive |-> TRUE, m_remaining |-> src.m_remaining,
                m_queue |-> c.l]])

QueueAssignKeepCount(m, h, Q, src) ==
    Let(ListCopy(h, src.m_queue, <<>>), LAMBDA c :
    Let(ListDestroy(m, c.hbufs, Q.m_queue), LAMBDA d :
        [mem |-> d.mem, hbufs |-> d.hbufs,
         q |-> [alive |-> TRUE, m_remaining |-> Q.m_remaining,
                m_queue |-> c.l]]))

\* BufferQueue::operator= for this != &src: m_queue = src.m_queue (the
\* fetchers of src are copied, the old ones of this are given up),
\* m_remaining = src.m_remaining.  Result: [mem, hbufs, q]
QueueAssign(m, h, Q, src) ==
    Let(ListCopy(h, src.m_queue, <<>>), LAMBDA c :
    Let(ListDestroy(m, c.hbufs, Q.m_queue), LAMBDA d :
        [mem |-> d.mem, hbufs |-> d.hbufs,
         q |-> [alive |-> TRUE, m_remaining |-> src.m_remaining,
                m_queue |-> c.l]]))

QueuePushFront(m, h, Q, data) ==
    IF data.len = 0
    THEN [mem |-> m, hbufs |-> h, q |-> Q]
    ELSE Let(FetcherNew(m, h, data), LAMBDA t :
         Let(FetcherCopy(t.hbufs, t.f), LAMBDA c :
         Let(FetcherDestroy(t.mem, c.hbufs, t.f), LAMBDA d :
             [mem |-> d.mem, hbufs |-> d.hbufs,
              q |-> [Q EXCEPT !.m_remaining = SizeT(@ + data.len),
                              !.m_queue = <<c.f>> \o @]])))

QueuePushAlways(m, h, Q, data) ==
    Let(FetcherNew(m, h, data), LAMBDA t :
    Let(FetcherCopy(t.hbufs, t.f), LAMBDA c :
    Let(FetcherDestroy(t.mem, c.hbufs, t.f), LAMBDA d :
        [mem |-> d.mem, hbufs |-> d.hbufs,
         q |-> [Q EXCEPT !.m_remaining = SizeT(@ + data.len),
                         !.m_queue = Append(@, c.f)]])))

\* BufferQueue::push: [mem, hbufs, q].  The temporary BufferFetcher(data) is
\* copied into the list node by push_back and then destroyed.
QueuePush(m, h, Q, data) ==
    IF data.len = 0
    THEN [mem |-> m, hbufs |-> h, q |-> Q]
    ELSE Let(FetcherNew(m, h, data), LAMBDA t :
         Let(FetcherCopy(t.hbufs, t.f), LAMBDA c :
         Let(FetcherDestroy(t.mem, c.hbufs, t.f), LAMBDA d :
             [mem |-> d.mem, hbufs |-> d.hbufs,
              q |-> [Q EXCEPT !.m_remaining = SizeT(@ + data.len),
                              !.m_queue = Append(@, c.f)]])))

DrainHeadAtZero(st, whole, needed) ==
    Let(IF whole THEN fetch_all(st.mem, st.hbufs, Head(st.m_queue))
        ELSE fetch_bytes(st.mem, st.hbufs, Head(st.m_queue), needed),
        LAMBDA r :
        IF ~r.ok THEN [ok |-> FALSE, mem |-> r.mem, f |-> r.f]
        ELSE Let(Copy2(r.mem, r.out, st.buffer, 0), LAMBDA c :
                 [ok |-> c.ok, mem |-> BufferDestroy(c.mem, r.out), f |-> r.f]))

\* One drain of the head segment in pop / pop_all:
\*   fetcher->fetch_all().copy(buffer, cursor)        (whole == TRUE)
\*   fetcher->fetch_bytes(needed).copy(buffer, cursor) (whole == FALSE)
\* followed by the destruction of the temporary the fetch returned.
\* Result: [ok, mem, f]
DrainHead(st, whole, needed) ==
    Let(IF whole THEN fetch_all(st.mem, st.hbufs, Head(st.m_queue))
        ELSE fetch_bytes(st.mem, st.hbufs, Head(st.m_queue), needed),
        LAMBDA r :
        IF ~r.ok THEN [ok |-> FALSE, mem |-> r.mem, f |-> r.f]
        ELSE Let(Copy2(r.mem, r.out, st.buffer, st.cursor), LAMBDA c :
                 [ok |-> c.ok, mem |-> BufferDestroy(c.mem, r.out), f |-> r.f]))

\* m_queue.pop_front() after the head fetcher was left as f
PopFront(st, m, f) ==
    Let(FetcherDestroy(m, st.hbufs, f), LAMBDA d :
        [st EXCEPT !.mem = d.mem, !.hbufs = d.hbufs, !.m_queue = Tail(@)])

DrainsWholeStrict(fetcher_remaining, needed) == fetcher_remaining < needed

\* the test of pop's loop: if (fetcher_remaining <= needed)
DrainsWhole(fetcher_remaining, needed) == fetcher_remaining <= needed

\* the while loop of BufferQueue::pop.  st = [mem, hbufs, m_queue, buffer,
\* cursor, status]; status "ub": m_queue.begin() of an empty list was
\* dereferenced; status "throw": an exception left the loop
RECURSIVE PopLoop(_, _)
PopLoop(st, size) ==
    IF ~(st.cursor < size) THEN st
    ELSE IF st.m_queue = <<>> THEN [st EXCEPT !.status = "ub"]
    ELSE
    Let(SizeT(size - st.cursor), LAMBDA needed :
    Let(get_remaining_size(Head(st.m_queue)), LAMBDA fetcher_remaining :
    Let(DrainHead(st, DrainsWhole(fetcher_remaining, needed), needed),
        LAMBDA r :
        IF ~r.ok
        THEN [st EXCEPT !.status = "throw", !.mem = r.mem,
                        !.m_queue = <<r.f>> \o Tail(@)]
        ELSE IF DrainsWhole(fetcher_remaining, needed)
        THEN Let(PopFront(st, r.mem, r.f), LAMBDA s1 :
                 PopLoop([s1 EXCEPT !.cursor = SizeT(@ + fetcher_remaining)],
                         size))
        ELSE PopLoop([st EXCEPT !.mem = r.mem,
                                !.m_queue = <<r.f>> \o Tail(@),
                                !.cursor = SizeT(@ + needed)],
                     size))))

\* the while loop of BufferQueue::pop_all
RECURSIVE PopAllLoop(_)
PopAllLoop(st) ==
    IF st.m_queue = <<>> THEN st
    ELSE
    Let(get_remaining_size(Head(st.m_queue)), LAMBDA fetcher_remaining :
    Let(DrainHead(st, TRUE, 0), LAMBDA r :
        IF ~r.ok
        THEN [st EXCEPT !.status = "throw", !.mem = r.mem,
                        !.m_queue = <<r.f>> \o Tail(@)]
        ELSE Let(PopFront(st, r.mem, r.f), LAMBDA s1 :
                 PopAllLoop([s1 EXCEPT
                               !.cursor = SizeT(@ + fetcher_remaining)]))))

QueueResultStale(Q, st, remaining) ==
    [status |-> st.status, mem |-> st.mem, hbufs |-> st.hbufs,
     buffer |-> st.buffer, q |-> [Q EXCEPT !.m_queue = st.m_queue]]

\* what pop / pop_all hand back once the loop has ended in st.
\* Result: [status, mem, hbufs, q, buffer]
QueueResult(Q, st, remaining) ==
    [status |-> st.status, mem |-> st.mem, hbufs |-> st.hbufs,
     buffer |-> st.buffer,
     q |-> IF st.status = "ok"
           THEN [Q EXCEPT !.m_remaining = remaining, !.m_queue = st.m_queue]
           ELSE [Q EXCEPT !.m_queue = st.m_queue]]

PopRangeErrorLoose(Q, size) == size > Q.m_remaining + 1

\* BufferQueue::pop: the range check that throws XAPCORE_BUF_ERROR_OVERFLOW
PopRangeError(Q, size) == size > Q.m_remaining

\* BufferQueue::pop after the range check: Buffer buffer(size), the loop,
\* m_remaining -= size
QueuePop(m, h, Q, size) ==
    Let(BufferZero(m, size), LAMBDA b :
    Let(PopLoop([mem |-> b.mem, hbufs |-> h, m_queue |-> Q.m_queue,
                 buffer |-> b.buf, cursor |-> 0, status |-> "ok"], size),
        LAMBDA st : QueueResult(Q, st, SizeT(Q.m_remaining - size))))

QueuePopAllKeepCount(m, h, Q) ==
    Let(BufferZero(m, Q.m_remaining), LAMBDA b :
    Let(PopAllLoop([mem |-> b.mem, hbufs |-> h, m_queue |-> Q.m_queue,
                    buffer |-> b.buf, cursor |-> 0, status |-> "ok"]),
        LAMBDA st : QueueResult(Q, st, Q.m_remaining)))

\* BufferQueue::pop_all: Buffer out(m_remaining), the loop, m_remaining = 0
QueuePopAll(m, h, Q) ==
    Let(BufferZero(m, Q.m_remaining), LAMBDA b :
    Let(PopAllLoop([mem |-> b.mem, hbufs |-> h, m_queue |-> Q.m_queue,
                    buffer |-> b.buf, cursor |-> 0, status |-> "ok"]),
        LAMBDA st : QueueResult(Q, st, 0)))

(***************************************************************************)
(* Names of arrays and heap Buffers.  The code compares addresses only for *)
(* identity, so the model names the arrays (and the heap Buffers) in the   *)
(* order in which the program's variables refer to them: the caller's      *)
(* Buffers, the caller's fetcher, the queue segments from head to tail.    *)
(***************************************************************************)
SlotOrder == <<"a", "b">>
QOrder == <<"queue", "other">>

Range(seq) == {seq[i] : i \in 1 .. Len(seq)}

\* the distinct non-null elements of seq in order of first occurrence,
\* appended to acc
RECURSIVE Firsts(_, _)
Firsts(seq, acc) ==
    IF seq = <<>> THEN acc
    ELSE IF Head(seq) = 0 \/ Head(seq) \in Range(acc)
    THEN Firsts(Tail(seq), acc)
    ELSE Firsts(Tail(seq), Append(acc, Head(seq)))

\* position of x in seq (0 for the null reference)
Index(seq, x) == IF x = 0 THEN 0 ELSE CHOOSE r \in 1 .. Len(seq) : seq[r] = x

RECURSIVE SegmentRefs(_, _)
SegmentRefs(Q, k) ==
    IF k > Len(QOrder) THEN <<>>
    ELSE [i \in 1 .. Len(Q[QOrder[k]].m_queue) |-> Q[QOrder[k]].m_queue[i].hb]
         \o SegmentRefs(Q, k + 1)

\* the state with the heap Buffers renamed by horder and the arrays by
\* aorder (new name = position in the order)
Rename(m, h, b, f, Q, horder, aorder) ==
    [mem |-> [r \in AllocIds |->
                 IF r <= Len(aorder) THEN m[aorder[r]] ELSE FreeCell],
     hbufs |-> [r \in HBufIds |->
                  IF r <= Len(horder)
                  THEN [h[horder[r]] EXCEPT !.view.alloc = Index(aorder, @)]
                  ELSE FreeHBuf],
     buf |-> [s \in DOMAIN b |-> [b[s] EXCEPT !.alloc = Index(aorder, @)]],
     fetcher |-> [f EXCEPT !.hb = Index(horder, @)],
     queue |-> [q \in DOMAIN Q |->
                  [Q[q] EXCEPT !.m_queue =
                      [i \in 1 .. Len(@) |->
                          [@[i] EXCEPT !.hb = Index(horder, @)]]]]]

\* horder, aorder: the old names in order of first reference, followed by
\* the ones in use that nothing refers to
Canon(m, h, b, f, Q) ==
    Let(Firsts(<<f.hb>> \o SegmentRefs(Q, 1)
               \o [i \in HBufIds |-> IF h[i].owners > 0 THEN i ELSE 0], <<>>),
        LAMBDA horder :
    Let(Firsts([k \in 1 .. Len(SlotOrder) |-> b[SlotOrder[k]].alloc]
               \o [r \in 1 .. Len(horder) |-> h[horder[r]].view.alloc]
               \o [a \in AllocIds |-> IF m[a].live THEN a ELSE 0], <<>>),
        LAMBDA aorder : Rename(m, h, b, f, Q, horder, aorder)))

\* the state after a call
Commit(m, h, b, f, Q) ==
    \E c \in {Canon(m, h, b, f, Q)} :
       /\ mem' = c.mem
       /\ hbufs' = c.hbufs
       /\ buf' = c.buf
       /\ fetcher' = c.fetcher
       /\ queue' = c.queue

(***************************************************************************)
(* The calls of the client program.  `last' records the call just made:    *)
(* op, the variable it was made on, its arguments, whether it returned     *)
(* (ok) or threw (err), and the bytes it returned.                         *)
(***************************************************************************)
Call(op, who, from, off, n, ok, err, ret) ==
    [op |-> op, who |-> who, from |-> from, off |-> off, n |-> n,
     ok |-> ok, err |-> err, ret |-> ret]

\* a call of the client on its own buffers whose details no property reads
Plain(op) == Call(op, "", "", 0, 0, TRUE, "", <<>>)

\* what the caller knows of its Buffer variable t: the variable it was
\* sliced from, and at which offset (from = "": not a slice the caller tracks)
NoOrigin == [from |-> "", off |-> 0]

\* the variable t gets a new value: what was known of t, and of the slices
\* taken from t, is void
Forget(o, t) ==
    [s \in Slots |-> IF s = t \/ o[s].from = t THEN NoOrigin ELSE o[s]]

\* t = s.slice(offset, ...): t is a slice of s at offset; a slice of a slice
\* (t = t.slice(...)) is a slice of the first buffer at the sum of the offsets
SliceOrigin(o, s, t, offset) ==
    [Forget(o, t) EXCEPT ![t] =
        IF s # t THEN [from |-> s, off |-> offset]
        ELSE IF o[t].from # ""
        THEN [from |-> o[t].from, off |-> o[t].off + offset]
        ELSE NoOrigin]

\* the program has not been killed by the system
Running == last.err # "killed"

Init ==
    /\ mem = [a \in AllocIds |-> FreeCell]
    /\ hbufs = [i \in HBufIds |-> FreeHBuf]
    /\ buf = [s \in Slots |-> NoBuf]
    /\ fetcher = NoFetcher
    /\ queue = [q \in QIds |-> IF q = "queue" THEN EmptyQueue ELSE NoQueue]
    /\ pending = [q \in QIds |-> <<>>]
    /\ origin = [s \in Slots |-> NoOrigin]
    /\ last = Plain("init")

\* Buffer s(data, datalen);
NewBuffer(s, data) ==
    /\ Running
    /\ ~IsBuf(buf[s])
    /\ CanAlloc(mem)
    /\ \E r \in {BufferRaw(mem, data)} :
          Commit(r.mem, hbufs, [buf EXCEPT ![s] = r.buf], fetcher, queue)
    /\ origin' = Forget(origin, s)
    /\ last' = Plain("Buffer(data)")
    /\ UNCHANGED pending

\* Buffer t(s);
CopyBuffer(s, t) ==
    /\ IsBuf(buf[s]) /\ ~IsBuf(buf[t])
    /\ \E r \in {BufferCopy(mem, buf[s])} :
          Commit(r.mem, hbufs, [buf EXCEPT ![t] = r.buf], fetcher, queue)
    /\ origin' = Forget(origin, t)
    /\ last' = Plain("Buffer(copy)")
    /\ UNCHANGED pending

\* t = s;
AssignBuffer(s, t) ==
    /\ IsBuf(buf[s]) /\ IsBuf(buf[t])
    /\ IF s = t
       THEN UNCHANGED <<mem, hbufs, buf, fetcher, queue, origin>>
       ELSE /\ \E r \in {BufferAssign(mem, buf[t], buf[s])} :
                  Commit(r.mem, hbufs, [buf EXCEPT ![t] = r.buf], fetcher,
                         queue)
            /\ origin' = Forget(origin, t)
    /\ last' = Plain("operator=")
    /\ UNCHANGED pending

SliceCallInPlace(s, t, offset, length) ==
    /\ Running
    /\ IsBuf(buf[s])
    /\ IF check_access(buf[s], offset, length)
       THEN /\ \E r \in {Slice(mem, buf[s], offset, length)} :
                  Commit(IF IsBuf(buf[t])
                         THEN BufferDestroy(
                                  BufferAssign(r.mem, buf[t], r.buf).mem, r.buf)
                         ELSE r.mem,
                         hbufs, [buf EXCEPT ![t] = r.buf, ![s].len = length],
                         fetcher, queue)
            /\ origin' = SliceOrigin(origin, s, t, offset)
       ELSE UNCHANGED <<mem, hbufs, buf, fetcher, queue, origin>>
    /\ UNCHANGED pending

\* t = s.slice(offset, length);  (Buffer t = s.slice(offset, length); when t
\* is not constructed yet.)  The temporary made by slice is assigned to t and
\* destroyed; a slice that throws leaves t alone.  t may be s.
SliceCall(s, t, offset, length) ==
    /\ Running
    /\ IsBuf(buf[s])
    /\ IF check_access(buf[s], offset, length)
       THEN /\ \E r \in {Slice(mem, buf[s], offset, length)} :
                  Commit(IF IsBuf(buf[t])
                         THEN BufferDestroy(
                                  BufferAssign(r.mem, buf[t], r.buf).mem, r.buf)
                         ELSE r.mem,
                         hbufs, [buf EXCEPT ![t] = r.buf], fetcher, queue)
            /\ origin' = SliceOrigin(origin, s, t, offset)
       ELSE UNCHANGED <<mem, hbufs, buf, fetcher, queue, origin>>
    /\ UNCHANGED pending

\* the slice call of a client that keeps no record of its arguments
SliceAssign(s, t, offset, length) ==
    /\ SliceCall(s, t, offset, length)
    /\ last' = Plain("slice")

\* t = s.slice(offset, length);
SliceBuffer(s, t, offset, length) ==
    /\ SliceCall(s, t, offset, length)
    /\ last' = Call("slice", t, s, offset, length,
                    check_access(buf[s], offset, length),
                    IF check_access(buf[s], offset, length)
                    THEN "" ELSE "OutOfRange", <<>>)

\* t = s.slice(offset);
SliceBuffer1(s, t, offset) ==
    /\ SliceCall(s, t, offset, SliceLen1(buf[s], offset))
    /\ last' = Call("slice1", t, s, offset, SliceLen1(buf[s], offset),
                    check_access(buf[s], offset, SliceLen1(buf[s], offset)),
                    IF check_access(buf[s], offset, SliceLen1(buf[s], offset))
                    THEN "" ELSE "OutOfRange", <<>>)

\* the variable s goes out of scope
DestroyBuffer(s) ==
    /\ Running
    /\ IsBuf(buf[s])
    /\ Commit(BufferDestroy(mem, buf[s]), hbufs, [buf EXCEPT ![s] = NoBuf],
              fetcher, queue)
    /\ origin' = Forget(origin, s)
    /\ last' = Plain("~Buffer")
    /\ UNCHANGED pending

\* BufferQueue q(src);
CopyQueue(q, src) ==
    /\ ~queue[q].alive /\ queue[src].alive
    /\ \E r \in {QueueCopy(hbufs, queue[src])} :
          Commit(mem, r.hbufs, buf, fetcher, [queue EXCEPT ![q] = r.q])
    /\ pending' = [pending EXCEPT ![q] = pending[src]]
    /\ last' = Call("BufferQueue(copy)", q, src, 0, 0, TRUE, "", <<>>)
    /\ UNCHANGED origin

\* q = src;
AssignQueue(q, src) ==
    /\ queue[q].alive /\ queue[src].alive
    /\ IF q = src
       THEN UNCHANGED <<mem, hbufs, buf, fetcher, queue>>
       ELSE \E r \in {QueueAssign(mem, hbufs, queue[q], queue[src])} :
               Commit(r.mem, r.hbufs, buf, fetcher, [queue EXCEPT ![q] = r.q])
    /\ pending' = [pending EXCEPT ![q] = pending[src]]
    /\ last' = Call("operator=", q, src, 0, 0, TRUE, "", <<>>)
    /\ UNCHANGED origin

\* the variable q goes out of scope: the list destroys its fetchers
DestroyQueue(q) ==
    /\ queue[q].alive
    /\ \E r \in {ListDestroy(mem, hbufs, queue[q].m_queue)} :
          Commit(r.mem, r.hbufs, buf, fetcher, [queue EXCEPT ![q] = NoQueue])
    /\ pending' = [pending EXCEPT ![q] = <<>>]
    /\ last' = Call("~BufferQueue", q, "", 0, 0, TRUE, "", <<>>)
    /\ UNCHANGED origin

\* q.push(s);
Push(q, s) ==
    /\ queue[q].alive
    /\ IsBuf(buf[s])
    /\ Len(pending[q]) + buf[s].len <= MaxQueued
    /\ buf[s].len = 0 \/ (CanHBuf(hbufs))
    /\ \E r \in {QueuePush(mem, hbufs, queue[q], buf[s])} :
          Commit(r.mem, r.hbufs, buf, fetcher, [queue EXCEPT ![q] = r.q])
    /\ pending' = [pending EXCEPT ![q] = @ \o Bytes(mem, buf[s])]
    /\ last' = Call("push", q, s, 0, buf[s].len, TRUE, "", <<>>)
    /\ UNCHANGED origin

\* q.pop(size); the caller reads the returned buffer and drops it
Pop(q, size) ==
    /\ queue[q].alive
    /\ UNCHANGED origin
    /\ IF PopRangeError(queue[q], size)
       THEN /\ last' = Call("pop", q, "", 0, size, FALSE, "OutOfRange", <<>>)
            /\ UNCHANGED <<mem, hbufs, buf, fetcher, queue, pending>>
       ELSE /\ \E r \in {QueuePop(mem, hbufs, queue[q], size)} :
               \E ret \in {Bytes(r.mem, r.buffer)} :
                  /\ Commit(BufferDestroy(r.mem, r.buffer), r.hbufs, buf,
                            fetcher, [queue EXCEPT ![q] = r.q])
                  /\ IF r.status = "ok"
                     THEN /\ pending' = [pending EXCEPT
                                           ![q] = Drop(@, Len(ret))]
                          /\ last' = Call("pop", q, "", 0, size, TRUE, "", ret)
                     ELSE /\ UNCHANGED pending
                          /\ last' = Call("pop", q, "", 0, size, FALSE,
                                          r.status, <<>>)

\* q.pop_all(); the caller reads the returned buffer and drops it
PopAll(q) ==
    /\ queue[q].alive
    /\ UNCHANGED origin
    /\ \E r \in {QueuePopAll(mem, hbufs, queue[q])} :
       \E ret \in {Bytes(r.mem, r.buffer)} :
          /\ Commit(BufferDestroy(r.mem, r.buffer), r.hbufs, buf, fetcher,
                    [queue EXCEPT ![q] = r.q])
          /\ IF r.status = "ok"
             THEN /\ pending' = [pending EXCEPT ![q] = Drop(@, Len(ret))]
                  /\ last' = Call("pop_all", q, "", 0, queue[q].m_remaining,
                                  TRUE, "", ret)
             ELSE /\ UNCHANGED pending
                  /\ last' = Call("pop_all", q, "", 0, queue[q].m_remaining,
                                  FALSE, r.status, <<>>)

\* the arguments the buffer client hands to size_t parameters: the small
\* ones and SIZE_MAX
SizeArgs == (0 .. MaxLen + 1) \cup {SizeMax}

\* does the access to bytes offset .. offset + length - 1 of the view stay
\* inside the array the view points into
Inside(m, b, offset, length) ==
    b.start + offset + length <= Len(m[b.alloc].data)

\* what a store outside the array it was meant for can leave behind when the
\* program goes on: nothing the program can see, or value in a byte of
\* another array
Stray(m, own, value) ==
    {m} \cup UNION {{[m EXCEPT ![a].data[k] = value] :
                        k \in 1 .. Len(m[a].data)} :
                    a \in {x \in AllocIds : m[x].live /\ x # own}}

\* a call that stores length bytes `value' at offset of s, after its
\* check_access(offset, length).  Inside the array the bytes are stored;
\* outside of it the behaviour is undefined: the program is killed, or the
\* bytes inside the array are stored and the rest goes astray
Store(op, s, value, offset, length) ==
    /\ IsBuf(buf[s])
    /\ IF ~check_access(buf[s], offset, length)
       THEN /\ last' = Call(op, s, "", offset, length, FALSE, "OutOfRange",
                            <<>>)
            /\ UNCHANGED mem
       ELSE IF length = 0 \/ Inside(mem, buf[s], offset, length)
       THEN /\ mem' = MemSet(mem, buf[s], offset, length, value)
            /\ last' = Call(op, s, "", offset, length, TRUE, "", <<value>>)
       ELSE \/ /\ last' = Call(op, s, "", offset, length, FALSE, "killed",
                               <<>>)
               /\ UNCHANGED mem
            \/ /\ mem' \in Stray(MemSet(mem, buf[s], offset, length, value),
                                 buf[s].alloc, value)
               /\ last' = Call(op, s, "", offset, length, TRUE, "",
                               <<value>>)
    /\ UNCHANGED <<hbufs, buf, fetcher, queue, pending, origin>>

\* s.write_uint8(value, offset);
WriteUint8(s, value, offset) ==
    /\ Running
    /\ Store("write_uint8", s, value, offset, 1)

\* s.write_uint16_be(value, offset); with both bytes of the value the same
WriteUint16(s, value, offset) ==
    /\ Running
    /\ Store("write_uint16_be", s, value, offset, 2)

\* s.fill(value, offset, length);
Fill(s, value, offset, length) ==
    /\ Running
    /\ Store("fill", s, value, offset, length)

\* s[offset] read by the caller.  Outside the array the behaviour is
\* undefined: the program is killed or any byte is read
ReadIndex(s, offset) ==
    /\ Running
    /\ IsBuf(buf[s])
    /\ IF ~check_access(buf[s], offset, 1)
       THEN last' = Call("operator[]", s, "", offset, 1, FALSE, "OutOfRange",
                         <<>>)
       ELSE IF InAlloc(mem, buf[s], offset)
       THEN last' = Call("operator[]", s, "", offset, 1, TRUE, "",
                         <<ByteAt(mem, buf[s], offset)>>)
       ELSE \/ last' = Call("operator[]", s, "", offset, 1, FALSE, "killed",
                            <<>>)
            \/ \E v \in ByteVals \cup {0} :
                  last' = Call("operator[]", s, "", offset, 1, TRUE, "", <<v>>)
    /\ UNCHANGED <<mem, hbufs, buf, fetcher, queue, pending, origin>>

\* BufferFetcher f(s);
FetcherConstruct(s) ==
    /\ fetcher.hb = 0 /\ IsBuf(buf[s])
    /\ \E r \in {FetcherNew(mem, hbufs, buf[s])} :
          Commit(r.mem, r.hbufs, buf, r.f, queue)
    /\ last' = Call("BufferFetcher", "", s, 0, 0, TRUE, "", <<>>)
    /\ UNCHANGED <<pending, origin>>

\* f.replace(s);
FetcherReplace(s) ==
    /\ fetcher.hb # 0 /\ IsBuf(buf[s])
    /\ \E r \in {replace(mem, hbufs, fetcher, buf[s])} :
          Commit(r.mem, r.hbufs, buf, r.f, queue)
    /\ last' = Call("replace", "", s, 0, 0, TRUE, "", <<>>)
    /\ UNCHANGED <<pending, origin>>

\* the variable f goes out of scope
FetcherDestruct ==
    /\ fetcher.hb # 0
    /\ \E r \in {FetcherDestroy(mem, hbufs, fetcher)} :
          Commit(r.mem, r.hbufs, buf, NoFetcher, queue)
    /\ last' = Call("~BufferFetcher", "", "", 0, 0, TRUE, "", <<>>)
    /\ UNCHANGED <<pending, origin>>

\* f.fetch();
Fetch ==
    /\ fetcher.hb # 0
    /\ \E r \in {fetch(mem, hbufs, fetcher)} :
          /\ fetcher' = r.f
          /\ last' = Call("fetch", "", "", 0, 1, r.ok, r.err, r.ret)
    /\ UNCHANGED <<mem, hbufs, buf, queue, pending, origin>>

\* f.fetch_to(s, destination_offset); the call returns the number of bytes
FetchTo(s, destination_offset) ==
    /\ fetcher.hb # 0 /\ IsBuf(buf[s])
    /\ \E r \in {fetch_to(mem, hbufs, fetcher, buf[s], destination_offset)} :
          /\ mem' = r.mem
          /\ fetcher' = r.f
          /\ last' = Call("fetch_to", s, "", destination_offset, 0, r.ok,
                          r.err, IF r.ok THEN <<r.n>> ELSE <<>>)
    /\ UNCHANGED <<hbufs, buf, queue, pending, origin>>

\* f.skip(count);
Skip(count) ==
    /\ fetcher.hb # 0
    /\ \E r \in {skip(fetcher, count)} :
          /\ fetcher' = r.f
          /\ last' = Call("skip", "", "", 0, count, r.ok, r.err, <<>>)
    /\ UNCHANGED <<mem, hbufs, buf, queue, pending, origin>>

\* f.reset();
Reset ==
    /\ fetcher.hb # 0
    /\ fetcher' = reset(fetcher)
    /\ last' = Call("reset", "", "", 0, 0, TRUE, "", <<>>)
    /\ UNCHANGED <<mem, hbufs, buf, queue, pending, origin>>

\* the bytes of the Buffer a fetch_all / fetch_bytes call returned, read by
\* the caller before it drops the Buffer
Fetched(op, n, r) ==
    /\ IF r.ok
       THEN /\ Commit(BufferDestroy(r.mem, r.out), hbufs, buf, r.f, queue)
            /\ last' = Call(op, "", "", 0, n, TRUE, "", Bytes(r.mem, r.out))
       ELSE /\ UNCHANGED <<mem, hbufs, buf, fetcher, queue>>
            /\ last' = Call(op, "", "", 0, n, FALSE, "OutOfRange", <<>>)
    /\ UNCHANGED <<pending, origin>>

\* f.fetch_all();
FetchAll ==
    /\ fetcher.hb # 0
    /\ Fetched("fetch_all", get_remaining_size(fetcher),
               fetch_all(mem, hbufs, fetcher))

\* f.fetch_bytes(count);
FetchBytes(count) ==
    /\ fetcher.hb # 0
    /\ Fetched("fetch_bytes", count, fetch_bytes(mem, hbufs, fetcher, count))

(***************************************************************************)
(* Spec: a client that builds buffers, slices them within their range and  *)
(* works one queue with them.                                              *)
(***************************************************************************)
\* the (offset, length) requests that lie within a buffer of length n
InRange(n) == {r \in (0 .. n) \X (0 .. n) : r[1] + r[2] <= n}

\* t = s.slice(offset, length); with a request that lies within s
SliceWithin(s, t) ==
    \E r \in InRange(buf[s].len) : SliceAssign(s, t, r[1], r[2])

Next ==
    \/ \E s \in QSlots, data \in RawData : NewBuffer(s, data)
    \/ \E s \in QSlots : SliceWithin(s, s)
    \/ \E s \in QSlots : DestroyBuffer(s)
    \/ \E s \in QSlots : Push("queue", s)
    \/ \E size \in 0 .. MaxQueued + 1 : Pop("queue", size)
    \/ PopAll("queue")

Spec == Init /\ [][Next]_vars

(***************************************************************************)
(* SpecCopy: a client that also copies, assigns and destroys queues.       *)
(***************************************************************************)
NextCopy ==
    \/ \E s \in QSlots, data \in RawData : NewBuffer(s, data)
    \/ \E s \in QSlots : DestroyBuffer(s)
    \/ \E q \in QIds \ {"queue"} : CopyQueue(q, "queue")
    \/ \E q, src \in QIds : AssignQueue(q, src)
    \/ \E q \in QIds \ {"queue"} : DestroyQueue(q)
    \/ \E q \in QIds, s \in QSlots : Push(q, s)
    \/ \E q \in QIds, size \in 0 .. MaxQueued + 1 : Pop(q, size)
    \/ \E q \in QIds : PopAll(q)

SpecCopy == Init /\ [][NextCopy]_vars

(***************************************************************************)
(* SpecBuf: a client that makes a Buffer, takes slices of it, reads and    *)
(* writes both, with any size_t arguments; it ends when the program is     *)
(* killed.                                                                 *)
(***************************************************************************)
NextBuf ==
    \/ \E data \in RawData : NewBuffer("a", data)
    \/ \E offset, length \in SizeArgs : SliceBuffer("a", "b", offset, length)
    \/ \E offset \in SizeArgs : SliceBuffer1("a", "b", offset)
    \/ \E s \in Slots, value \in ByteVals, offset \in SizeArgs :
          WriteUint8(s, value, offset)
    \/ \E s \in Slots, value \in ByteVals, offset \in SizeArgs :
          WriteUint16(s, value, offset)
    \/ \E s \in Slots, value \in ByteVals, offset, length \in SizeArgs :
          Fill(s, value, offset, length)
    \/ \E s \in Slots, offset \in SizeArgs : ReadIndex(s, offset)
    \/ \E s \in Slots : DestroyBuffer(s)

SpecBuf == Init /\ [][NextBuf]_vars

(***************************************************************************)
(* SpecSlice: a client that takes slices, and slices of slices, of a       *)
(* Buffer with any size_t arguments and writes through all of them.        *)
(***************************************************************************)
\* b = b.slice(offset, length); for a b that is a slice of a, as long as the
\* sum of the offsets is a size_t
SliceAgain(offset, length) ==
    /\ origin["b"].from = "a"
    /\ origin["b"].off + offset <= SizeMax
    /\ SliceAssign("b", "b", offset, length)

NextSlice ==
    \/ \E data \in RawData : NewBuffer("a", data)
    \/ \E offset, length \in SizeArgs : SliceAssign("a", "b", offset, length)
    \/ \E offset, length \in SizeArgs : SliceAgain(offset, length)
    \/ \E s \in Slots, value \in ByteVals, offset \in SizeArgs :
          WriteUint8(s, value, offset)
    \/ \E s \in Slots, offset \in SizeArgs : ReadIndex(s, offset)
    \/ \E s \in Slots : DestroyBuffer(s)

SpecSlice == Init /\ [][NextSlice]_vars

(***************************************************************************)
(* SpecFetch: a client that reads a Buffer through a BufferFetcher and     *)
(* goes on writing to the Buffer.                                          *)
(***************************************************************************)
NextFetch ==
    \/ \E s \in QSlots, data \in RawData : NewBuffer(s, data)
    \/ \E s \in QSlots : SliceWithin(s, s)
    \/ \E s \in QSlots : DestroyBuffer(s)
    \/ \E s \in QSlots, value \in ByteVals, offset \in 0 .. MaxLen :
          WriteUint8(s, value, offset)
    \/ \E s \in QSlots : FetcherConstruct(s)
    \/ \E s \in QSlots : FetcherReplace(s)
    \/ FetcherDestruct
    \/ Fetch
    \/ FetchAll
    \/ \E count \in 0 .. MaxLen + 1 : FetchBytes(count)

SpecFetch == Init /\ [][NextFetch]_vars

(***************************************************************************)
(* SpecCursor: a client that reads a Buffer a through a BufferFetcher with *)
(* every call of the cursor, into a destination Buffer b of its own.       *)
(***************************************************************************)
\* the counts the cursor client hands over: the small ones and SIZE_MAX
Counts == (0 .. MaxLen + 1) \cup {SizeMax}

\* f.replace(s.slice(offset)); with an offset within s; the temporary that
\* slice returned is destroyed after the call
FetcherReplaceTail(s) ==
    /\ fetcher.hb # 0 /\ IsBuf(buf[s])
    /\ \E offset \in 1 .. buf[s].len :
       \E t \in {Slice(mem, buf[s], offset, SliceLen1(buf[s], offset))} :
       \E r \in {replace(t.mem, hbufs, fetcher, t.buf)} :
          /\ Commit(BufferDestroy(r.mem, t.buf), r.hbufs, buf, r.f, queue)
          /\ last' = Call("replace", "", s, offset, 0, TRUE, "", <<>>)
    /\ UNCHANGED <<pending, origin>>

NextCursor ==
    \/ \E s \in Slots, data \in RawData : NewBuffer(s, data)
    \/ FetcherReplaceTail("a")
    \/ \E s \in Slots : DestroyBuffer(s)
    \/ FetcherConstruct("a")
    \/ FetcherReplace("a")
    \/ FetcherDestruct
    \/ Fetch
    \/ \E destination_offset \in 0 .. MaxLen + 1 :
          FetchTo("b", destination_offset)
    \/ FetchAll
    \/ \E count \in Counts : FetchBytes(count)
    \/ \E count \in Counts : Skip(count)
    \/ Reset

SpecCursor == Init /\ [][NextCursor]_vars

(***************************************************************************)
(* SpecBytes: a client that copies bytes between its Buffers, which may be *)
(* views of one array.                                                     *)
(***************************************************************************)
\* s.copy(t); s.copy(t, destination_offset);
\* s.copy(t, destination_offset, src_offset);  (form 1, 2, 3).  A memcpy over
\* overlapping ranges is undefined: it leaves what a memmove or what a copy
\* byte after byte leaves
CopyTo(form, s, t, destination_offset, src_offset) ==
    /\ IsBuf(buf[s]) /\ IsBuf(buf[t])
    /\ \E r \in {IF form = 1 THEN Copy1(mem, buf[s], buf[t])
                  ELSE IF form = 2
                  THEN Copy2(mem, buf[s], buf[t], destination_offset)
                  ELSE Copy3(mem, buf[s], buf[t], destination_offset,
                             src_offset)} :
          /\ IF r.ok /\ Overlap(buf[t], destination_offset, buf[s],
                                 src_offset, r.n)
             THEN mem' \in {r.mem,
                            MemCpyForward(mem, buf[t], destination_offset,
                                          buf[s], src_offset, r.n, 0)}
             ELSE mem' = r.mem
          /\ last' = Call(<<"copy1", "copy2", "copy3">>[form], t, s,
                          destination_offset, src_offset, r.ok,
                          IF r.ok THEN "" ELSE "OutOfRange",
                          IF r.ok THEN <<r.n>> ELSE <<>>)
    /\ UNCHANGED <<hbufs, buf, fetcher, queue, pending, origin>>

NextBytes ==
    \/ \E s \in Slots, data \in RawData : NewBuffer(s, data)
    \/ SliceWithin("a", "b")
    \/ \E s \in Slots : DestroyBuffer(s)
    \/ \E s, t \in Slots : CopyTo(1, s, t, 0, 0)
    \/ \E s, t \in Slots, destination_offset \in 0 .. MaxLen + 1 :
          CopyTo(2, s, t, destination_offset, 0)
    \/ \E s, t \in Slots, destination_offset, src_offset \in 0 .. MaxLen + 1 :
          CopyTo(3, s, t, destination_offset, src_offset)

SpecBytes == Init /\ [][NextBytes]_vars

(***************************************************************************)
(* SpecConcat: a client that concatenates its Buffers and writes to them.  *)
(***************************************************************************)
\* the arrays of Buffer variables handed to concat
RECURSIVE SlotSeqs(_)
SlotSeqs(n) ==
    IF n = 0 THEN {<<>>}
    ELSE SlotSeqs(n - 1) \cup
         {Append(ss, s) : ss \in SlotSeqs(n - 1), s \in Slots}

\* Buffer bs[] = {args...}; t = Buffer::concat(bs, count);  (Buffer t =
\* Buffer::concat(bs, count); when t is not constructed yet.)  bs holds
\* copies of the variables; they and the temporary returned are destroyed
\* after the assignment.  `last' records the variables as `from'.  The
\* client keeps its buffers within MaxLen bytes.
Concat(args, t) ==
    /\ Running
    /\ \A i \in 1 .. Len(args) : IsBuf(buf[args[i]])
    /\ CanAlloc(mem)
    /\ ConcatLen([i \in 1 .. Len(args) |-> buf[args[i]]], 1) <= MaxLen
    /\ \E r \in {concat(mem, [i \in 1 .. Len(args) |-> buf[args[i]]])} :
          /\ IF r.ok
             THEN Commit(IF IsBuf(buf[t])
                         THEN BufferDestroy(
                                  BufferAssign(r.mem, buf[t], r.buf).mem, r.buf)
                         ELSE r.mem,
                         hbufs, [buf EXCEPT ![t] = r.buf], fetcher, queue)
             ELSE Commit(r.mem, hbufs, buf, fetcher, queue)
          /\ origin' = IF r.ok THEN Forget(origin, t) ELSE origin
          /\ last' = Call("concat", t, args, 0, Len(args), r.ok,
                          IF r.ok THEN "" ELSE "OutOfRange",
                          IF r.ok THEN Bytes(r.mem, r.buf) ELSE <<>>)
    /\ UNCHANGED pending

NextConcat ==
    \/ \E s \in Slots, data \in RawData : NewBuffer(s, data)
    \/ SliceWithin("a", "b")
    \/ \E s \in Slots : DestroyBuffer(s)
    \/ \E args \in SlotSeqs(MaxCount), t \in Slots : Concat(args, t)
    \/ \E s \in Slots, value \in ByteVals, offset \in 0 .. MaxLen :
          WriteUint8(s, value, offset)

SpecConcat == Init /\ [][NextConcat]_vars

(***************************************************************************)
(* SpecCodec: a client that constructs a buffer from raw bytes, writes one *)
(* number into it and reads numbers from it.                               *)
(***************************************************************************)
\* big-endian bytes to the number they spell
RECURSIVE OfBytes(_)
OfBytes(bs) ==
    IF bs = <<>> THEN <<>>
    ELSE Or(Shl(OfBytes(SubSeq(bs, 1, Len(bs) - 1)), 8), Bits(bs[Len(bs)]))

\* the raw bytes the client constructs its buffer from
CodecData ==
    {[i \in 1 .. CodecLen |-> 170],
     [i \in 1 .. CodecLen |-> 16 * i + i],
     [i \in 1 .. CodecLen |->
         IF i <= 8 THEN <<65, 46, 2, 232, 63, 66, 53, 47>>[i] ELSE 0]}

\* the values of uintN_t the client writes, N = 8 * w
UintValues(w) ==
    {<<>>, [i \in 1 .. 8 * w |-> 1], [i \in 1 .. 8 * w |-> IF i = 8 * w THEN 1 ELSE 0],
     Cast(OfBytes(<<1, 2, 3, 4, 5, 6, 7, 8>>), 8 * w)}

CodecOffsets == {0, 1, 2, 6, CodecLen}

\* the float and double functions
FloatReadOps ==
    {"read_float_be", "read_float_le", "read_double_be", "read_double_le"}

FloatWriteOps ==
    {"write_float_be", "write_float_le", "write_double_be", "write_double_le"}

\* the isle argument the function hands on
IsLe(op) ==
    op \in {"read_float_le", "read_double_le", "write_float_le",
            "write_double_le"}

IsDouble(op) ==
    op \in {"read_double_be", "read_double_le", "write_double_be",
            "write_double_le"}

\* the value of an IEEE-754 pattern of 1 + exponent_length +
\* mantissa_length bits
IeeeValue(x, mantissa_length, exponent_length) ==
    Let(Num(Cast(Shr(x, mantissa_length), exponent_length)), LAMBDA e :
    Let(2 ^ (exponent_length - 1) - 1, LAMBDA bias :
        IF e = 0
        THEN Fin(BitAt(x, mantissa_length + exponent_length),
                 Cast(x, mantissa_length), (1 - bias) - mantissa_length)
        ELSE IF e = 2 ^ exponent_length - 1
        THEN IF Cast(x, mantissa_length) = <<>>
             THEN Infinity(BitAt(x, mantissa_length + exponent_length))
             ELSE NaN
        ELSE Fin(BitAt(x, mantissa_length + exponent_length),
                 Add(Cast(x, mantissa_length), Shl(<<1>>, mantissa_length)),
                 (e - bias) - mantissa_length)))

\* the big-endian patterns of the floats and doubles the client writes:
\* 1, -2, 0, -0, the infinities, 189.745, -102.345, the least and the
\* greatest subnormal, the least and the greatest normal, a NaN;
\* 1, -2, 0, -0, the infinities, 1.5, 983412.123552, -874.978924, the least
\* and the greatest subnormal, the greatest normal, 2 - 2^-52,
\* 1 + (2^32 - 1) * 2^-52, a NaN
FloatPatterns ==
    {<<63, 128, 0, 0>>, <<192, 0, 0, 0>>, <<0, 0, 0, 0>>, <<128, 0, 0, 0>>,
     <<127, 128, 0, 0>>, <<255, 128, 0, 0>>, <<67, 61, 190, 184>>,
     <<194, 204, 176, 164>>, <<0, 0, 0, 1>>, <<0, 127, 255, 255>>,
     <<0, 128, 0, 0>>, <<127, 127, 255, 255>>, <<255, 192, 0, 1>>}

DoublePatterns ==
    {<<63, 240, 0, 0, 0, 0, 0, 0>>, <<192, 0, 0, 0, 0, 0, 0, 0>>,
     <<0, 0, 0, 0, 0, 0, 0, 0>>, <<128, 0, 0, 0, 0, 0, 0, 0>>,
     <<127, 240, 0, 0, 0, 0, 0, 0>>, <<255, 240, 0, 0, 0, 0, 0, 0>>,
     <<63, 248, 0, 0, 0, 0, 0, 0>>, <<65, 46, 2, 232, 63, 66, 53, 47>>,
     <<192, 139, 87, 212, 214, 27, 42, 40>>, <<0, 0, 0, 0, 0, 0, 0, 1>>,
     <<0, 15, 255, 255, 255, 255, 255, 255>>,
     <<127, 239, 255, 255, 255, 255, 255, 255>>,
     <<63, 255, 255, 255, 255, 255, 255, 255>>,
     <<63, 240, 0, 0, 255, 255, 255, 255>>,
     <<127, 248, 0, 0, 0, 0, 0, 1>>}

\* the values the client hands to a write function
FloatValues(op) ==
    IF IsDouble(op)
    THEN {IeeeValue(OfBytes(p), 52, 11) : p \in DoublePatterns}
    ELSE {IeeeValue(OfBytes(p), 23, 8) : p \in FloatPatterns}

\* the client reads from a buffer just constructed, or at the offset it has
\* just written
ReadsAt(offset) ==
    \/ last.op = "Buffer(data)"
    \/ last.op \in WriteOps \cup FloatWriteOps /\ last.off = offset

\* s.write_float_xx(value, offset); s.write_double_xx(value, offset); on a
\* buffer just constructed
WriteFloat(s, op, value, offset) ==
    /\ Running
    /\ IsBuf(buf[s])
    /\ last.op = "Buffer(data)"
    /\ IF ~check_access(buf[s], offset, Width(op))
       THEN /\ last' = Call(op, s, "", offset, Width(op), FALSE, "OutOfRange",
                            <<>>)
            /\ UNCHANGED mem
       ELSE IF Inside(mem, buf[s], offset, Width(op))
       THEN /\ mem' \in IF IsDouble(op)
                       THEN write_ieee_754_double(mem, buf[s], value,
                                                  IsLe(op), offset)
                       ELSE {write_ieee_754_float(mem, buf[s], value,
                                                  IsLe(op), offset)}
            /\ last' = Call(op, s, "", offset, Width(op), TRUE, "", value)
       ELSE /\ last' = Call(op, s, "", offset, Width(op), FALSE, "killed",
                            <<>>)
            /\ UNCHANGED mem
    /\ UNCHANGED <<hbufs, buf, fetcher, queue, pending, origin>>

\* s.read_float_xx(offset); s.read_double_xx(offset);
ReadFloat(s, op, offset) ==
    /\ Running
    /\ IsBuf(buf[s])
    /\ ReadsAt(offset)
    /\ last' = IF ~check_access(buf[s], offset, Width(op))
               THEN Call(op, s, "", offset, Width(op), FALSE, "OutOfRange",
                         <<>>)
               ELSE IF Inside(mem, buf[s], offset, Width(op))
               THEN Call(op, s, "", offset, Width(op), TRUE, "",
                         IF IsDouble(op)
                         THEN read_ieee_754_double(mem, buf[s], IsLe(op),
                                                   offset)
                         ELSE read_ieee_754_float(mem, buf[s], IsLe(op),
                                                  offset))
               ELSE Call(op, s, "", offset, Width(op), FALSE, "killed", <<>>)
    /\ UNCHANGED <<mem, hbufs, buf, fetcher, queue, pending, origin>>

\* s.write_uintN_xx(value, offset); on a buffer just constructed
WriteUint(s, op, value, offset) ==
    /\ Running
    /\ IsBuf(buf[s])
    /\ last.op = "Buffer(data)"
    /\ IF ~check_access(buf[s], offset, Width(op))
       THEN /\ last' = Call(op, s, "", offset, Width(op), FALSE, "OutOfRange",
                            <<>>)
            /\ UNCHANGED mem
       ELSE IF Inside(mem, buf[s], offset, Width(op))
       THEN /\ mem' = write_uint(mem, buf[s], op, value, offset)
            /\ last' = Call(op, s, "", offset, Width(op), TRUE, "", value)
       ELSE /\ last' = Call(op, s, "", offset, Width(op), FALSE, "killed",
                            <<>>)
            /\ UNCHANGED mem
    /\ UNCHANGED <<hbufs, buf, fetcher, queue, pending, origin>>

\* s.read_uintN_xx(offset);
ReadUint(s, op, offset) ==
    /\ Running
    /\ IsBuf(buf[s])
    /\ ReadsAt(offset)
    /\ last' = IF ~check_access(buf[s], offset, Width(op))
               THEN Call(op, s, "", offset, Width(op), FALSE, "OutOfRange",
                         <<>>)
               ELSE IF Inside(mem, buf[s], offset, Width(op))
               THEN Call(op, s, "", offset, Width(op), TRUE, "",
                         read_uint(mem, buf[s], op, offset))
               ELSE Call(op, s, "", offset, Width(op), FALSE, "killed", <<>>)
    /\ UNCHANGED <<mem, hbufs, buf, fetcher, queue, pending, origin>>

NextCodec ==
    \/ \E data \in CodecData : NewBuffer("a", data)
    \/ DestroyBuffer("a")
    \/ \E op \in WriteOps, offset \in CodecOffsets :
          \E value \in UintValues(Width(op)) :
             WriteUint("a", op, value, offset)
    \/ \E op \in ReadOps, offset \in CodecOffsets : ReadUint("a", op, offset)
    \/ \E op \in FloatWriteOps, offset \in CodecOffsets :
          \E value \in FloatValues(op) : WriteFloat("a", op, value, offset)
    \/ \E op \in FloatReadOps, offset \in CodecOffsets :
          ReadFloat("a", op, offset)

SpecCodec == Init /\ [][NextCodec]_vars

(***************************************************************************)
(* SpecMem: a client that constructs, copies, assigns, slices and destroys *)
(* Buffers and hands them to a fetcher and to a queue.                     *)
(***************************************************************************)
\* queue.push(s); by a client that keeps one segment in its queue
PushOne(s) ==
    /\ queue["queue"].m_queue = <<>>
    /\ Push("queue", s)

NextMem ==
    \/ \E s \in Slots : NewBuffer(s, [i \in 1 .. MaxLen |-> i])
    \/ \E s, t \in Slots : CopyBuffer(s, t)
    \/ \E s, t \in Slots : AssignBuffer(s, t)
    \/ \E s, t \in Slots : SliceWithin(s, t)
    \/ \E s \in Slots : DestroyBuffer(s)
    \/ FetcherConstruct("a")
    \/ FetcherReplace("b")
    \/ FetcherDestruct
    \/ PushOne("b")
    \/ PopAll("queue")

SpecMem == Init /\ [][NextMem]_vars

(***************************************************************************)
(* Properties of BufferQueue.                                              *)
(***************************************************************************)
\* BufferQueue::get_remaining_size
queue_get_remaining_size(Q) == Q.m_remaining

\* the unconsumed bytes of a segment
SegmentBytes(m, h, f) ==
    SubSeq(Bytes(m, FView(h, f)), f.m_cursor + 1, f.m_buffer_length)

\* the unconsumed bytes of the segments of q, from head to tail
Segments(q) ==
    [i \in 1 .. Len(queue[q].m_queue) |->
        SegmentBytes(mem, hbufs, queue[q].m_queue[i])]

\* the cursor positions of the segments of q, from head to tail
Cursors(q) ==
    [i \in 1 .. Len(queue[q].m_queue) |-> queue[q].m_queue[i].m_cursor]

RECURSIVE SumRemaining(_)
SumRemaining(l) ==
    IF l = <<>> THEN 0
    ELSE get_remaining_size(Head(l)) + SumRemaining(Tail(l))

RECURSIVE Flatten(_)
Flatten(ss) == IF ss = <<>> THEN <<>> ELSE Head(ss) \o Flatten(Tail(ss))

\* the step is a call of op that returned
Returned(op) == last'.op = op /\ last'.ok

\* C1: the queue is one FIFO byte stream.  A pop(n) with n <= remaining
\* returns, and returns the next n bytes of the bytes pushed and not yet
\* popped (pending, in push order); pop_all returns all of them; what stays
\* queued, segment after segment, is the rest of the stream.
C1_Step ==
    \A q \in QIds :
        /\ (last'.op = "pop" /\ last'.who = q) =>
              (last'.n <= queue_get_remaining_size(queue[q]) =>
                  /\ last'.ok
                  /\ last'.ret = SubSeq(pending[q], 1, last'.n)
                  /\ Flatten(Segments(q))' = Drop(pending[q], last'.n))
        /\ (last'.op = "pop_all" /\ last'.who = q) =>
              /\ last'.ok
              /\ last'.ret = pending[q]
              /\ Flatten(Segments(q))' = <<>>
        /\ (Returned("push") /\ last'.who = q) =>
              Flatten(Segments(q))'
                 = pending[q] \o Bytes(mem, buf[last'.from])

C1_FifoStream == [][C1_Step]_vars

\* a pop returned bytes of two segments, the first of them partly consumed
\* by an earlier pop
C1_Witness ==
    /\ last.op = "pop" /\ last.ok
    /\ last.ret = <<2, 1>>
    /\ queue["queue"].m_queue # <<>>
    /\ Head(queue["queue"].m_queue).m_cursor > 0

\* C2: get_remaining_size() of a queue is the number of bytes pushed minus
\* the number of bytes the pops returned, after successful and failed calls
\* alike.
C2_RemainingIsPushedMinusPopped ==
    \A q \in QIds :
        queue[q].alive =>
            queue_get_remaining_size(queue[q]) = Len(pending[q])

\* a pop has failed on a queue that holds a partly consumed segment
C2_Witness ==
    /\ last.op = "pop" /\ ~last.ok
    /\ Len(pending["queue"]) = 1
    /\ Cursors("queue") = <<1>>

\* C3: the counter m_remaining is the sum of get_remaining_size() over the
\* segments of the list, after construction, copy, assignment, push, pop
\* and pop_all.
C3_RemainingIsSumOfSegments ==
    \A q \in QIds :
        queue[q].alive =>
            queue[q].m_remaining = SumRemaining(queue[q].m_queue)

\* an assignment has replaced a queue of one segment by a queue of two
\* segments, the head partly consumed
C3_Witness ==
    /\ last.op = "operator=" /\ last.who = "other" /\ last.from = "queue"
    /\ Cursors("other") = <<1, 0>>
    /\ queue["other"].m_remaining = MaxQueued - 1

\* C4: pop(size) with size > remaining throws OutOfRange and changes
\* nothing: the list, the cursors, m_remaining, the arrays.
C4_Step ==
    \A q \in QIds :
        (last'.op = "pop" /\ last'.who = q) =>
            (last'.n > queue_get_remaining_size(queue[q]) =>
                /\ ~last'.ok /\ last'.err = "OutOfRange"
                /\ queue' = queue
                /\ Cursors(q)' = Cursors(q)
                /\ Segments(q)' = Segments(q)
                /\ mem' = mem /\ hbufs' = hbufs /\ buf' = buf)

C4_PopOutOfRange == [][C4_Step]_vars

\* pop(remaining + 1) was refused on a full queue
C4_Witness ==
    /\ last.op = "pop" /\ last.err = "OutOfRange"
    /\ last.n = queue["queue"].m_remaining + 1
    /\ queue["queue"].m_remaining = MaxQueued
    /\ Len(queue["queue"].m_queue) > 1

\* what is left of the unconsumed bytes ss of the segments once n bytes are
\* taken from the front: the segments taken to their last byte go, the
\* others stay
RECURSIVE Consume(_, _)
Consume(ss, n) ==
    IF ss = <<>> THEN <<>>
    ELSE IF Len(Head(ss)) <= n THEN Consume(Tail(ss), n - Len(Head(ss)))
    ELSE <<Drop(Head(ss), n)>> \o Tail(ss)

\* C5: every segment in the list of a queue has at least one unconsumed
\* byte; a pop removes exactly the segments it consumes to their last byte
\* (the head too when the pop needs exactly what the head has left) and
\* keeps every segment that has bytes left; a push adds a segment only for
\* a buffer that has bytes.
C5_NoDrained ==
    \A q \in QIds :
        \A i \in 1 .. Len(queue[q].m_queue) :
            get_remaining_size(queue[q].m_queue[i]) > 0

C5_Step ==
    \A q \in QIds :
        /\ (Returned("pop") /\ last'.who = q) =>
              Segments(q)' = Consume(Segments(q), last'.n)
        /\ (Returned("pop_all") /\ last'.who = q) => Segments(q)' = <<>>
        /\ (Returned("push") /\ last'.who = q) =>
              Segments(q)' = Segments(q) \o
                  (IF last'.n = 0 THEN <<>>
                   ELSE <<Bytes(mem, buf[last'.from])>>)

C5_SegmentsHaveBytes == []C5_NoDrained /\ [][C5_Step]_vars

\* a pop has taken exactly what the head segment had left after an earlier
\* pop, and the next segment is the new head, untouched
C5_Witness ==
    /\ last.op = "pop" /\ last.ok /\ last.ret = <<2>>
    /\ Cursors("queue") = <<0>>
    /\ Segments("queue") = <<<<1, 2>>>>

(***************************************************************************)
(* Properties of Buffer and BufferFetcher.                                 *)
(***************************************************************************)
\* byte i of t and byte at of s are the same byte: both accesses pass the
\* bounds check and reach the same byte of one array
SameByte(t, i, s, at) ==
    /\ check_access(buf[t], i, 1) /\ check_access(buf[s], at, 1)
    /\ buf[t].alloc = buf[s].alloc
    /\ buf[t].start + i = buf[s].start + at
    /\ InAlloc(mem, buf[t], i)
    /\ ByteAt(mem, buf[t], i) = ByteAt(mem, buf[s], at)

\* C6: a view v = b.slice(offset, length) that slice accepted shows the
\* bytes of b from offset on: v[i] is b[offset + i] for all i < length, at
\* all later times and whatever is written through v or b, and a slice of
\* a slice shows the bytes of b at the sum of the offsets.
C6_SliceAliases ==
    \A t \in Slots :
        origin[t].from # "" =>
            \A i \in 0 .. buf[t].len - 1 :
                SameByte(t, i, origin[t].from, origin[t].off + i)

\* the bytes the fetch calls of the caller's fetcher have still to return
Unread == IF fetcher.hb = 0 THEN <<>> ELSE SegmentBytes(mem, hbufs, fetcher)

\* C7: the fetcher has a private copy of the buffer it was constructed from
\* or given by replace: fetch, fetch_all and fetch_bytes return the bytes
\* the buffer had then, and a write of the caller to the buffer changes
\* none of the bytes the fetcher has still to return.
C7_Step ==
    /\ (last'.op = "write_uint8" /\ fetcher.hb # 0) => Unread' = Unread
    /\ Returned("fetch") => last'.ret = SubSeq(Unread, 1, 1)
    /\ Returned("fetch_all") => last'.ret = Unread
    /\ Returned("fetch_bytes") => last'.ret = SubSeq(Unread, 1, last'.n)

C7_FetcherPrivateCopy == [][C7_Step]_vars

\* the Buffer objects that refer to array a: the caller's and the heap
\* Buffers of fetchers and queue segments
RefCount(a) ==
    Cardinality({s \in Slots : buf[s].alloc = a})
    + Cardinality({i \in HBufIds : hbufs[i].owners > 0
                                   /\ hbufs[i].view.alloc = a})

\* the fetchers that hold heap Buffer i: the caller's and the queue segments
HolderCount(i) ==
    (IF fetcher.hb = i THEN 1 ELSE 0)
    + Cardinality({r \in QIds \X (1 .. 2 * MaxQueued) :
                      /\ r[2] <= Len(queue[r[1]].m_queue)
                      /\ queue[r[1]].m_queue[r[2]].hb = i})

\* C8: an array is freed when, and only when, the last Buffer that refers
\* to it is destroyed: every Buffer of the caller, of a fetcher and of a
\* queue segment refers to an array that is not freed, and an array that
\* no Buffer refers to is freed.
C8_SharedLifetime ==
    /\ \A s \in Slots : IsBuf(buf[s]) => mem[buf[s].alloc].live
    /\ \A i \in HBufIds :
          /\ hbufs[i].owners = HolderCount(i)
          /\ hbufs[i].owners > 0 => mem[hbufs[i].view.alloc].live
    /\ \A a \in AllocIds :
          /\ mem[a].live => RefCount(a) > 0
          /\ mem[a].refs = RefCount(a)

\* a slice has outlived the buffer it was taken from, and the array is also
\* held by the Buffers of a fetcher and of a queue segment
C8_Witness ==
    /\ last.op = "~Buffer"
    /\ ~IsBuf(buf["a"]) /\ IsBuf(buf["b"]) /\ buf["b"].start > 0
    /\ fetcher.hb # 0 /\ queue["queue"].m_queue # <<>>
    /\ RefCount(buf["b"].alloc) = 3

AccessOps == {"operator[]", "write_uint8", "write_uint16_be", "fill"}

\* C9: an access (offset, n) to a buffer of length L succeeds when n = 0;
\* when n > 0 it fails with OutOfRange exactly when offset >= L or
\* offset + n > L; a write or fill that fails changes no byte.
C9_Step ==
    \A s \in Slots :
        (last'.op \in AccessOps /\ last'.who = s) =>
            /\ last'.n = 0 => last'.ok
            /\ last'.n > 0 =>
                  (last'.err = "OutOfRange"
                      <=> (last'.off >= buf[s].len
                           \/ last'.off + last'.n > buf[s].len))
            /\ last'.err = "OutOfRange" => mem' = mem

C9_BoundsRule == [][C9_Step]_vars

\* C10: slice(offset, len) of a view of length L fails with OutOfRange when
\* offset + len > L, whatever len is, and succeeds when offset + len <= L;
\* slice(offset) succeeds with a view of length 0 when offset = L and fails
\* when offset > L.
C10_Step ==
    \A s \in Slots :
        /\ (last'.op = "slice" /\ last'.from = s) =>
              /\ last'.off + last'.n > buf[s].len =>
                    (~last'.ok /\ last'.err = "OutOfRange")
              /\ last'.off + last'.n <= buf[s].len => last'.ok
        /\ (last'.op = "slice1" /\ last'.from = s) =>
              /\ last'.off = buf[s].len =>
                    (last'.ok /\ buf'[last'.who].len = 0)
              /\ last'.off > buf[s].len =>
                    (~last'.ok /\ last'.err = "OutOfRange")

C10_SliceRange == [][C10_Step]_vars

(***************************************************************************)
(* Properties of the cursor (BufferFetcher) calls.                         *)
(***************************************************************************)
\* the length of the Buffer the caller's fetcher reads
BufferLength == FView(hbufs, fetcher).len

\* C11: after every sequence of fetch, fetch_to, fetch_all, fetch_bytes,
\* skip, reset and replace calls, failed ones included, the cursor of a
\* fetcher satisfies 0 <= cursor <= length of its buffer, is_end() is true
\* exactly when cursor = length, and get_remaining_size() = length - cursor.
C11_CursorInRange ==
    fetcher.hb # 0 =>
        /\ 0 <= fetcher.m_cursor /\ fetcher.m_cursor <= BufferLength
        /\ is_end(fetcher) <=> fetcher.m_cursor = BufferLength
        /\ get_remaining_size(fetcher) = BufferLength - fetcher.m_cursor

\* a skip beyond the end was refused with the cursor in the middle of a
\* buffer
C11_Witness ==
    /\ last.op = "skip" /\ last.err = "OutOfRange"
    /\ fetcher.m_cursor = 1 /\ BufferLength = 2

\* C12: fetch() on a cursor that is not at the end returns the byte at the
\* current position and advances the position by exactly 1; on a cursor at
\* the end it fails with EndOfStream and leaves the position unchanged.
C12_Step ==
    last'.op = "fetch" =>
        IF fetcher.m_cursor # BufferLength
        THEN /\ last'.ok
             /\ last'.ret = <<Bytes(mem, FView(hbufs, fetcher))[fetcher.m_cursor + 1]>>
             /\ fetcher'.m_cursor = fetcher.m_cursor + 1
             /\ Unread' = Tail(Unread)
        ELSE /\ ~last'.ok /\ last'.err = "EndOfStream"
             /\ fetcher' = fetcher

C12_Fetch == [][C12_Step]_vars

\* fetch has failed at the end of a buffer of two bytes
C12_Witness ==
    /\ last.op = "fetch" /\ last.err = "EndOfStream"
    /\ fetcher.m_cursor = 2 /\ BufferLength = 2

\* the bytes of a destination after k bytes of src were copied into it at
\* dest_offset
Patched(dest, dest_offset, k, src) ==
    [i \in 1 .. Len(dest) |->
        IF i > dest_offset /\ i <= dest_offset + k THEN src[i - dest_offset]
        ELSE dest[i]]

\* fetch_to(d, dest_offset) returned k = min(d.length - dest_offset,
\* remaining), copied the next k unconsumed bytes into d at dest_offset,
\* advanced the position by k and left the other bytes of d unchanged
FetchToCopied(d) ==
    \E k \in {Min(buf[d].len - last'.off, get_remaining_size(fetcher))} :
        /\ last'.ok /\ last'.ret = <<k>>
        /\ fetcher'.m_cursor = fetcher.m_cursor + k
        /\ Bytes(mem', buf'[d])
              = Patched(Bytes(mem, buf[d]), last'.off, k, Unread)

\* fetch_to on a destination of length zero returned 0 and moved nothing
FetchToNothing(d) ==
    /\ last'.ok /\ last'.ret = <<0>>
    /\ fetcher' = fetcher /\ mem' = mem

\* C13 as stated: fetch_to(dest, dest_offset) copies k = min(dest.length -
\* dest_offset, remaining) bytes from the current position into dest at
\* dest_offset, returns k and advances the position by k, leaving the
\* other bytes of dest unchanged; with a dest of length zero it returns 0
\* without failing and without moving the position, also at the end.
C13_StepAsStated ==
    \A d \in Slots :
        (last'.op = "fetch_to" /\ last'.who = d) =>
            IF buf[d].len = 0 THEN FetchToNothing(d)
            ELSE last'.off <= buf[d].len => FetchToCopied(d)

C13_Step ==
    \A d \in Slots :
        (last'.op = "fetch_to" /\ last'.who = d) =>
            IF buf[d].len = 0 THEN FetchToNothing(d)
            ELSE IF fetcher.m_cursor = BufferLength
            THEN /\ ~last'.ok /\ last'.err = "EndOfStream"
                 /\ fetcher' = fetcher /\ mem' = mem
            ELSE last'.off <= buf[d].len => FetchToCopied(d)

C14_Step ==
    last'.op = "fetch_all" =>
        /\ last'.ok
        /\ last'.ret = SubSeq(Bytes(mem, FView(hbufs, fetcher)),
                              fetcher.m_cursor + 1, BufferLength)
        /\ fetcher.m_cursor = BufferLength => last'.ret = <<>>
        /\ fetcher'.m_cursor = BufferLength
        /\ Unread' = <<>>

C15_Step ==
    last'.op = "fetch_bytes" =>
        IF last'.n = 0
        THEN /\ last'.ok /\ last'.ret = <<>>
             /\ fetcher'.m_cursor = fetcher.m_cursor
        ELSE IF last'.n <= BufferLength - fetcher.m_cursor
        THEN /\ last'.ok
             /\ last'.ret = SubSeq(Bytes(mem, FView(hbufs, fetcher)),
                                   fetcher.m_cursor + 1,
                                   fetcher.m_cursor + last'.n)
             /\ fetcher'.m_cursor = fetcher.m_cursor + last'.n
        ELSE /\ ~last'.ok /\ last'.err = "OutOfRange"
             /\ fetcher' = fetcher

C15_FetchBytes == [][C15_Step]_vars

\* fetch_bytes(2) was refused with one byte left of two
C15_Witness ==
    /\ last.op = "fetch_bytes" /\ last.err = "OutOfRange" /\ last.n = 2
    /\ fetcher.m_cursor = 1 /\ BufferLength = 2

\* C16: skip(count) advances the position by exactly count when
\* 0 < count <= remaining; does nothing when count = 0, at any position;
\* fails with EndOfStream when the cursor is at the end and count > 0;
\* fails with OutOfRange when the cursor is not at the end and
\* count > remaining; a skip that fails leaves the position unchanged.
C16_Step ==
    last'.op = "skip" =>
        IF last'.n = 0
        THEN last'.ok /\ fetcher' = fetcher
        ELSE IF fetcher.m_cursor = BufferLength
        THEN /\ ~last'.ok /\ last'.err = "EndOfStream"
             /\ fetcher' = fetcher
        ELSE IF last'.n > BufferLength - fetcher.m_cursor
        THEN /\ ~last'.ok /\ last'.err = "OutOfRange"
             /\ fetcher' = fetcher
        ELSE /\ last'.ok
             /\ fetcher'.m_cursor = fetcher.m_cursor + last'.n

C16_Skip == [][C16_Step]_vars

\* skip(1) has failed at the end of a buffer of two bytes
C16_Witness ==
    /\ last.op = "skip" /\ last.err = "EndOfStream" /\ last.n = 1
    /\ fetcher.m_cursor = 2 /\ BufferLength = 2

\* C17: on a fetcher whose cursor is at the end of its buffer, fetch(),
\* fetch_all(), fetch_bytes(1), fetch_to(d) with a d of length zero and
\* skip(1) each raise BufferException.
C17_Step ==
    (fetcher.hb # 0 /\ fetcher.m_cursor = BufferLength) =>
        /\ last'.op \in {"fetch", "fetch_all"} => ~last'.ok
        /\ (last'.op \in {"fetch_bytes", "skip"} /\ last'.n = 1) => ~last'.ok
        /\ \A d \in Slots :
              (last'.op = "fetch_to" /\ last'.who = d /\ last'.off = 0
                  /\ buf[d].len = 0) => ~last'.ok

C17_ThrowsAtEnd == [][C17_Step]_vars

(***************************************************************************)
(* More properties of BufferQueue.                                         *)
(***************************************************************************)
\* C18: pop_all() is equivalent to pop(remaining): called on the same queue
\* both return the same bytes and leave the same queue; after pop_all() the
\* segment list is empty and get_remaining_size() is 0, also on an empty
\* queue, where pop_all() returns a buffer of length zero.
C18_Step ==
    \A q \in QIds :
        (last'.op = "pop_all" /\ last'.who = q) =>
            \E p \in {QueuePop(mem, hbufs, queue[q],
                                queue_get_remaining_size(queue[q]))} :
                /\ ~PopRangeError(queue[q], queue_get_remaining_size(queue[q]))
                /\ last'.ok /\ p.status = "ok"
                /\ last'.ret = Bytes(p.mem, p.buffer)
                /\ queue[q].m_queue = <<>> => last'.ret = <<>>
                /\ queue'[q].m_queue = <<>>
                /\ queue_get_remaining_size(queue'[q]) = 0
                /\ p.q = queue'[q]

C18_PopAllIsPopRemaining == [][C18_Step]_vars

\* pop_all has returned the rest of a partly consumed segment and the
\* segment after it
C18_Witness ==
    /\ last.op = "pop_all" /\ last.ok /\ last.ret = <<2, 1>>
    /\ queue["queue"].m_queue = <<>>

\* C19: the zero-size queue calls leave the queue as it is: a push of a
\* buffer of length zero adds no segment and does not change m_remaining;
\* pop(0) returns a buffer of length zero, removes no segment and moves no
\* cursor; in every state of the queue, the empty one included.
C19_Step ==
    \A q \in QIds :
        /\ (last'.op = "push" /\ last'.who = q
                /\ buf[last'.from].len = 0) =>
              /\ last'.ok
              /\ queue'[q] = queue[q]
              /\ Segments(q)' = Segments(q) /\ Cursors(q)' = Cursors(q)
              /\ hbufs' = hbufs /\ mem' = mem
        /\ (last'.op = "pop" /\ last'.who = q /\ last'.n = 0) =>
              /\ last'.ok /\ last'.ret = <<>>
              /\ queue'[q] = queue[q]
              /\ Segments(q)' = Segments(q) /\ Cursors(q)' = Cursors(q)
              /\ hbufs' = hbufs /\ mem' = mem

C19_ZeroSizeCalls == [][C19_Step]_vars

\* a buffer of length zero was pushed to a queue whose only segment is
\* partly consumed
C19_Witness ==
    /\ last.op = "push" /\ last.n = 0 /\ buf[last.from].len = 0
    /\ Cursors("queue") = <<1>> /\ queue["queue"].m_remaining = 1

\* the bytes pop_all() would return from queue Q in memory m, h
PopAllBytes(m, h, Q) ==
    Let(QueuePopAll(m, h, Q), LAMBDA r : Bytes(r.mem, r.buffer))

\* the step leaves queue r as it is: segments, cursors, m_remaining, and
\* the bytes popped from it after the step are the bytes it held before
QueueKept(r) ==
    /\ Segments(r)' = Segments(r)
    /\ Cursors(r)' = Cursors(r)
    /\ queue'[r].m_remaining = queue[r].m_remaining
    /\ PopAllBytes(mem', hbufs', queue'[r]) = Flatten(Segments(r))

\* C20: a queue made by the copy constructor or by assignment has the
\* segments of the source in the same order, the same cursor position in
\* every segment and the same m_remaining; afterwards the two queues are
\* independent: push, pop and pop_all on one change neither the segment
\* list, the cursors, m_remaining nor the bytes later popped from the
\* other.
C20_Step ==
    \A q \in QIds : \A r \in QIds \ {q} :
        /\ (last'.op \in {"BufferQueue(copy)", "operator="}
                /\ last'.who = q /\ last'.from = r) =>
              /\ Segments(q)' = Segments(r)
              /\ Cursors(q)' = Cursors(r)
              /\ queue'[q].m_remaining = queue[r].m_remaining
              /\ QueueKept(r)
        /\ (last'.op \in {"push", "pop", "pop_all"} /\ last'.who = q
                /\ queue[r].alive) => QueueKept(r)

C20_CopyIsIndependent == [][C20_Step]_vars

\* a pop has taken the rest of the head segment from a copy, and the queue
\* it was copied from still has that segment, partly consumed
C20_Witness ==
    /\ last.op = "pop" /\ last.who = "other" /\ last.ok /\ last.ret = <<2>>
    /\ Cursors("queue") = <<1, 0>> /\ Cursors("other") = <<0>>
    /\ queue["queue"].m_remaining = 2 /\ queue["other"].m_remaining = 1

(***************************************************************************)
(* More properties of Buffer.                                              *)
(***************************************************************************)
\* the step assigns to the Buffer variable s: s = a.slice(...) that returned
AssignsTo(s) ==
    last'.op \in {"slice", "slice1"} /\ last'.who = s /\ last'.ok

\* C21 as stated: get_length() of a Buffer object never changes after its
\* construction, under any sequence of operations applied to that object
\* or to other views of the same allocation.
C21_StepAsStated ==
    \A s \in Slots :
        (IsBuf(buf[s]) /\ IsBuf(buf'[s])) => buf'[s].len = buf[s].len

C21_LengthFixedAsStated == [][C21_StepAsStated]_vars

\* C21 (amended): get_length() of a Buffer object changes only when the
\* object is assigned to (operator=); no other operation on the object or
\* on other views of the same allocation changes it.
C21_Step ==
    \A s \in Slots :
        (IsBuf(buf[s]) /\ IsBuf(buf'[s]) /\ ~AssignsTo(s)) =>
            buf'[s].len = buf[s].len

C21_LengthFixed == [][C21_Step]_vars

\* a fill through a slice of one byte has written into the array of a
\* buffer of two bytes
C21_Witness ==
    /\ last.op = "fill" /\ last.ok /\ last.who = "b" /\ last.n = 1
    /\ buf["a"].len = 2 /\ buf["b"].len = 1
    /\ buf["a"].alloc = buf["b"].alloc


(***************************************************************************)
(* C22: copy.                                                              *)
(***************************************************************************)
CopyOps == {"copy1", "copy2", "copy3"}

\* the copy just made throws: an explicit offset lies behind its buffer
CopyRejects(s, t) ==
    \/ last'.op \in {"copy2", "copy3"} /\ last'.off > buf[t].len
    \/ last'.op = "copy3" /\ last'.n > buf[s].len

\* the number of bytes the copy just made is to move
CopyLen(s, t) == Min(buf[s].len - last'.n, buf[t].len - last'.off)

\* cell idx of array a is one of the k bytes the copy writes
CopyTarget(t, k, a, idx) ==
    /\ a = buf[t].alloc
    /\ idx > buf[t].start + last'.off
    /\ idx <= buf[t].start + last'.off + k

C22_StepAsStated ==
    \A s, t \in Slots :
        (last'.op \in CopyOps /\ last'.from = s /\ last'.who = t) =>
            IF CopyRejects(s, t)
            THEN ~last'.ok /\ last'.err = "OutOfRange"
            ELSE /\ last'.ok /\ last'.ret = <<CopyLen(s, t)>>
                 /\ \A i \in 0 .. CopyLen(s, t) - 1 :
                       ByteAt(mem', buf[t], last'.off + i) =
                           ByteAt(mem', buf[s], last'.n + i)
                 /\ \A i \in 0 .. buf[t].len - 1 :
                       (i < last'.off \/ i >= last'.off + CopyLen(s, t)) =>
                           ByteAt(mem', buf[t], i) = ByteAt(mem, buf[t], i)
                 /\ Bytes(mem', buf[s]) = Bytes(mem, buf[s])

\* C22 as stated: copy moves k = min(src.length - src_offset, dest.length -
\* dest_offset) bytes so that dest[dest_offset + i] == src[src_offset + i],
\* returns k, leaves the other bytes of dest and all bytes of the source
\* unchanged, and fails with OutOfRange exactly when an explicit offset is
\* greater than the length of its buffer.
C22_CopyAsStated == [][C22_StepAsStated]_vars

C22_Step ==
    \A s, t \in Slots :
        (last'.op \in CopyOps /\ last'.from = s /\ last'.who = t) =>
            IF CopyRejects(s, t)
            THEN ~last'.ok /\ last'.err = "OutOfRange" /\ mem' = mem
            ELSE /\ last'.ok /\ last'.ret = <<CopyLen(s, t)>>
                 /\ ~Overlap(buf[t], last'.off, buf[s], last'.n,
                             CopyLen(s, t)) =>
                       /\ \A i \in 0 .. CopyLen(s, t) - 1 :
                             ByteAt(mem', buf[t], last'.off + i) =
                                 ByteAt(mem, buf[s], last'.n + i)
                       /\ \A a \in AllocIds :
                             /\ mem'[a].refs = mem[a].refs
                             /\ Len(mem'[a].data) = Len(mem[a].data)
                             /\ \A idx \in 1 .. Len(mem[a].data) :
                                   ~CopyTarget(t, CopyLen(s, t), a, idx) =>
                                       mem'[a].data[idx] = mem[a].data[idx]

\* C22: copy(dest, dest_offset, src_offset) (omitted offsets are 0) returns
\* k = min(src.length - src_offset, dest.length - dest_offset); it fails with
\* OutOfRange, changing nothing, exactly when an explicit offset is greater
\* than the length of its buffer (an offset equal to the length copies 0
\* bytes; the overload without offsets never fails); and when the k bytes read
\* and the k bytes written do not overlap, dest[dest_offset + i] holds the
\* value src[src_offset + i] had before the call for 0 <= i < k and every
\* byte other than these k destination bytes is unchanged.
C22_Copy == [][C22_Step]_vars

\* a.copy(b, 0, 1) between two arrays moved the second byte of a to the
\* first of b
C22_Witness ==
    /\ last.op = "copy3" /\ last.ok /\ last.from = "a" /\ last.who = "b"
    /\ last.off = 0 /\ last.n = 1 /\ last.ret = <<1>>
    /\ buf["a"].alloc # buf["b"].alloc
    /\ Bytes(mem, buf["a"]) = <<1, 2>> /\ Bytes(mem, buf["b"]) = <<2, 2>>


(***************************************************************************)
(* C23: concat.                                                            *)
(***************************************************************************)
\* the bytes of the buffers handed to the concat just made, before the call
ConcatInputs ==
    [i \in 1 .. Len(last'.from) |-> Bytes(mem, buf[last'.from[i]])]

C23_Step ==
    /\ \A t \in Slots :
          (last'.op = "concat" /\ last'.who = t) =>
              /\ last'.ok
              /\ last'.ret = Flatten(ConcatInputs)
              /\ buf'[t].len = Len(Flatten(ConcatInputs))
              /\ Bytes(mem', buf'[t]) = Flatten(ConcatInputs)
              /\ buf'[t].start = 0
              /\ mem'[buf'[t].alloc].refs = 1
              /\ \A s \in Slots \ {t} :
                    /\ buf'[s].alloc # buf'[t].alloc
                    /\ IsBuf(buf'[s]) = IsBuf(buf[s])
                    /\ Bytes(mem', buf'[s]) = Bytes(mem, buf[s])
    /\ \A s, u \in Slots :
          (/\ last'.op = "write_uint8" /\ last'.who = s
           /\ IsBuf(buf[u]) /\ buf[u].alloc # buf[s].alloc) =>
              Bytes(mem', buf'[u]) = Bytes(mem, buf[u])

\* C23: concat(buffers, count) returns a buffer whose length is the sum of
\* the inputs' lengths and whose bytes are the inputs' bytes in array order
\* (zero-length inputs and count == 0 included); the result is a new array
\* with one owner, which no other buffer views, so that a write to the result
\* or to an input is not seen through the other; the inputs are not modified.
C23_Concat == [][C23_Step]_vars

\* b = concat({a, b}) of a = {2} and b = {1} gave {2, 1}
C23_Witness ==
    /\ last.op = "concat" /\ last.ok /\ last.who = "b"
    /\ last.from = <<"a", "b">> /\ last.ret = <<2, 1>>
    /\ Bytes(mem, buf["a"]) = <<2>> /\ Bytes(mem, buf["b"]) = <<2, 1>>


(***************************************************************************)
(* C24, C25: the integer reads and writes.                                 *)
(***************************************************************************)
\* the read function of the width and byte order of a write function
ReadOf(op) ==
    CASE op = "write_uint8" -> "read_uint8"
      [] op = "write_uint16_be" -> "read_uint16_be"
      [] op = "write_uint16_le" -> "read_uint16_le"
      [] op = "write_uint32_be" -> "read_uint32_be"
      [] op = "write_uint32_le" -> "read_uint32_le"
      [] op = "write_uint64_be" -> "read_uint64_be"
      [] op = "write_uint64_le" -> "read_uint64_le"

C24_Step ==
    (/\ last.op \in WriteOps /\ last.ok
     /\ last'.op = ReadOf(last.op) /\ last'.off = last.off) =>
        last'.ok /\ last'.ret = last.ret

\* C24: for every width (8, 16, 32, 64 bits), both byte orders, every value v
\* of the width and every offset the bounds check accepts, a read with the
\* matching width and byte order at the offset of the write just made
\* returns v.
C24_RoundTrip == [][C24_Step]_vars

\* 0x0102030405060708 written by write_uint64_le at 1 was read back
C24_Witness ==
    /\ last.op = "read_uint64_le" /\ last.ok /\ last.off = 1
    /\ last.ret = OfBytes(<<1, 2, 3, 4, 5, 6, 7, 8>>)
    /\ Bytes(mem, buf["a"]) = <<170, 8, 7, 6, 5, 4, 3, 2, 1>>

\* byte j of a value, j = 0 the least significant
ByteOf(value, j) == Num(Cast(Shr(value, 8 * j), 8))

\* which byte of the value the function keeps at offset + i
Significance(op, i) ==
    IF op \in {"read_uint8", "read_uint16_be", "read_uint32_be",
               "read_uint64_be", "write_uint8", "write_uint16_be",
               "write_uint32_be", "write_uint64_be"}
    THEN Width(op) - 1 - i ELSE i

C25_Step ==
    \A s \in Slots :
        /\ (last'.op \in WriteOps /\ last'.ok /\ last'.who = s) =>
              /\ \A i \in 0 .. buf[s].len - 1 :
                    ByteAt(mem', buf[s], i) =
                        IF i >= last'.off /\ i < last'.off + Width(last'.op)
                        THEN ByteOf(last'.ret,
                                    Significance(last'.op, i - last'.off))
                        ELSE ByteAt(mem, buf[s], i)
              /\ \A a \in AllocIds : a # buf[s].alloc => mem'[a] = mem[a]
        /\ (last'.op \in ReadOps /\ last'.ok /\ last'.who = s) =>
              /\ Len(last'.ret) <= 8 * Width(last'.op)
              /\ \A i \in 0 .. Width(last'.op) - 1 :
                    ByteOf(last'.ret, Significance(last'.op, i)) =
                        ByteAt(mem, buf[s], last'.off + i)

\* C25: an integer write of width w bytes at offset o stores the w bytes of
\* the value at o .. o+w-1 and changes no other byte: big-endian with the most
\* significant byte at o and the least significant at o+w-1, little-endian
\* with the same bytes in reverse order; the reads decode with the same
\* layouts.
C25_Layout == [][C25_Step]_vars

\* write_uint32_be(0x05060708, 2) into nine bytes 0xAA
C25_Witness ==
    /\ last.op = "write_uint32_be" /\ last.ok /\ last.off = 2
    /\ Bytes(mem, buf["a"]) = <<170, 170, 5, 6, 7, 8, 170, 170, 170>>

FloatReadOf(op) ==
    CASE op = "write_float_be" -> "read_float_be"
      [] op = "write_float_le" -> "read_float_le"
      [] op = "write_double_be" -> "read_double_be"
      [] op = "write_double_le" -> "read_double_le"

\* the IEEE-754 pattern of a value that is no NaN, most significant byte
\* first
PatternOf(op, value) ==
    IF IsDouble(op)
    THEN CHOOSE p \in DoublePatterns : IeeeValue(OfBytes(p), 52, 11) = value
    ELSE CHOOSE p \in FloatPatterns : IeeeValue(OfBytes(p), 23, 8) = value

C26_Step ==
    \A s \in Slots :
        /\ (/\ last'.op \in FloatWriteOps /\ last'.ok /\ last'.who = s
            /\ last'.ret.cls # "nan") =>
              \A i \in 0 .. Width(last'.op) - 1 :
                 ByteAt(mem', buf[s], last'.off + i) =
                    PatternOf(last'.op, last'.ret)[
                        IF IsLe(last'.op) THEN Width(last'.op) - i ELSE i + 1]
        /\ (/\ last.op \in FloatWriteOps /\ last.ok /\ last.who = s
            /\ last'.op = FloatReadOf(last.op) /\ last'.off = last.off) =>
              /\ last'.ok
              /\ IF last.ret.cls = "nan" THEN last'.ret.cls = "nan"
                 ELSE last'.ret = last.ret

\* C26: for every float and double value v that is no NaN (zeros of both
\* signs, subnormals, normals, infinities) and both byte orders, writing v
\* and reading it back at the same offset returns v bit for bit, and the
\* bytes written are the IEEE-754 binary32 or binary64 pattern of v in the
\* chosen byte order; a NaN written is read back as a NaN.
C26_FloatRoundTrip == [][C26_Step]_vars

\* the Width(op) bytes at offset as one number, in the byte order of op
PatternAt(m, b, op, offset) ==
    OfBytes([i \in 1 .. Width(op) |->
                ByteAt(m, b, offset + (IF IsLe(op) THEN Width(op) - i
                                       ELSE i - 1))])

C27_Step ==
    \A s \in Slots :
        /\ (/\ last'.op \in {"read_double_be", "read_double_le"} /\ last'.ok
            /\ last'.who = s) =>
              DoubleMantissa(mem, buf[s], IsLe(last'.op), last'.off) =
                  Cast(PatternAt(mem, buf[s], last'.op, last'.off), 52)
        /\ (/\ last'.op \in {"write_double_be", "write_double_le"} /\ last'.ok
            /\ last'.who = s) =>
              Let(Trunc(MantissaExponent(last'.ret, 52, 2047, 1023,
                                         DoubleRt).m), LAMBDA m :
                  /\ Cast(PatternAt(mem', buf[s], last'.op, last'.off), 32) =
                         Cast(m, 32)
                  /\ Cast(Shr(PatternAt(mem', buf[s], last'.op, last'.off),
                              32), 20) = Shr(m, 32)
                  /\ DoubleMantissa(mem', buf[s], IsLe(last'.op), last'.off)
                         = m)

\* C27: the double codec maps between the 52-bit mantissa field and its
\* integer value as value = high20 * 2^32 + low32: read_double_be/le decode
\* the mantissa of every 8-byte pattern as the unsigned integer formed by the
\* low 52 bits of the pattern, and write_double_be/le store a mantissa
\* integer m, 0 <= m < 2^52, as low32 = m mod 2^32 and high20 = m div 2^32,
\* so that decoding the written fields returns m.
C27_DoubleMantissa == [][C27_Step]_vars

C28_Step ==
    \A s \in Slots :
        (/\ \/ last'.op \in AccessOps /\ last'.who = s
            \/ last'.op = "slice" /\ last'.from = s
         /\ last'.n > 0
         /\ last'.off + last'.n > buf[s].len) =>
            ~last'.ok /\ last'.err = "OutOfRange"

\* C28: the bounds check is sound for all size_t arguments: for a buffer of
\* length L no slice, fill or typed access of length n > 0 is accepted when
\* offset + n, computed without wrap-around, exceeds L; a request with
\* offset < L and n > SIZE_MAX - offset, where offset + n wraps modulo 2^w,
\* is rejected with OutOfRange.
C28_BoundsSound == [][C28_Step]_vars

C29_Step ==
    \A q \in QIds :
        /\ (/\ last'.op = "pop" /\ last'.who = q
            /\ last'.n <= queue_get_remaining_size(queue[q])) =>
              /\ last'.ok /\ Len(last'.ret) = last'.n
              /\ \A i \in 1 .. Len(queue[q].m_queue) :
                    get_remaining_size(queue[q].m_queue[i]) > 0
              /\ Len(queue[q].m_queue) - Len(queue'[q].m_queue) <= last'.n
              /\ last'.n < queue_get_remaining_size(queue[q]) =>
                    queue'[q].m_queue # <<>>
        /\ (last'.op = "pop_all" /\ last'.who = q) =>
              /\ last'.ok /\ Len(last'.ret) = last'.n
              /\ queue'[q].m_queue = <<>>

\* C29: in every queue state reachable by push, pop, pop_all and copy,
\* pop(size) with size <= remaining terminates: each loop iteration reads the
\* head of a segment list that is not empty (the list is never empty while
\* bytes are still needed) and strictly increases the number of bytes
\* collected, so it removes at most size segments and returns size bytes;
\* pop_all terminates after removing each segment once.
C29_PopTerminates == [][C29_Step]_vars

\* a pop on a copy of the queue went through two whole segments
C29_Witness ==
    /\ last.op = "pop" /\ last.who = "other" /\ last.ok
    /\ last.ret = <<1, 2, 1>>
    /\ queue["other"].m_queue = <<>>
    /\ Len(queue["queue"].m_queue) = 2

\* the bytes still to be popped from a queue Q whose segments lie in m and h
ToPop(m, h, Q) ==
    Flatten([i \in 1 .. Len(Q.m_queue) |-> SegmentBytes(m, h, Q.m_queue[i])])

C30_Step ==
    \A q, o \in QIds :
        (/\ q # o /\ queue[o].alive
         /\ last.op = "pop" /\ last.who = q /\ last.ok
         /\ last'.op = "pop" /\ last'.who = q /\ last'.ok
         /\ queue_get_remaining_size(queue[o]) =
               last.n + queue_get_remaining_size(queue[q])
         /\ ToPop(mem, hbufs, queue[o]) =
               last.ret \o ToPop(mem, hbufs, queue[q])) =>
            /\ ~PopRangeError(queue[o], last.n + last'.n)
            /\ \E p \in {QueuePop(mem, hbufs, queue[o], last.n + last'.n)} :
                  /\ p.status = "ok"
                  /\ Bytes(p.mem, p.buffer) = last.ret \o last'.ret
                  /\ queue_get_remaining_size(p.q) =
                        queue_get_remaining_size(queue'[q])
                  /\ ToPop(p.mem, p.hbufs, p.q) =
                        ToPop(mem', hbufs', queue'[q])

\* C30: pops compose: for every reachable queue state and all a, b with
\* a + b <= remaining, the bytes of pop(a) followed by the bytes of pop(b)
\* equal the bytes returned by pop(a + b) on an equal copy of the queue (a
\* queue that holds what the queue held before pop(a)), and both queues end
\* with the same remaining size and the same bytes still to be popped.
C30_PopsCompose == [][C30_Step]_vars

\* pop(1) and pop(2) have emptied the queue whose copy still holds the
\* three bytes of its two segments
C30_Witness ==
    /\ last.op = "pop" /\ last.who = "queue" /\ last.ok
    /\ last.ret = <<2, 1>>
    /\ queue["queue"].m_queue = <<>>
    /\ queue["other"].alive
    /\ Len(queue["other"].m_queue) = 2
    /\ ToPop(mem, hbufs, queue["other"]) = <<1, 2, 1>>

====
